---- MODULE Spec2Model ----
(***************************************************************************)
(* A model of the sqll library: the connection pool of                     *)
(* sqll/connection.py (ConnectionManager), the query builder of           *)
(* sqll/query_builder.py (QueryBuilder), and the operations and the        *)
(* transaction() block of the client of sqll/client.py (SQLClient).        *)
(*                                                                         *)
(* The pool is modelled as threads calling get_connection,                 *)
(* return_connection, close_all and get_connection_context; a step is a    *)
(* maximal piece of a call that runs either wholly under self._lock or     *)
(* wholly outside it.                                                      *)
(***************************************************************************)
EXTENDS Integers, Sequences, FiniteSets, TLC

(***************************************************************************)
(* Bounds of the model.                                                    *)
(***************************************************************************)
\* self._max_connections of the pool, scaled down (the source sets 10).
max_connections == 1
\* Number of engine connections that can be opened in one behaviour.
MaxHandles == 2
\* Number of threads calling the pool.
NumThreads == 2
\* Number of chaining calls made on the builders in one behaviour.
MaxCalls == 3
\* Depth of nested build() calls at which the interpreter gives up; deeper than
\* any chain of distinct builders, so only a cyclic union graph reaches it.
RecursionLimit == 3
\* Number of threads calling the client at the same time.
NumCallers == 1

Threads == 1..NumThreads
Handles == 1..MaxHandles
None == 0

VARIABLES
    connections,       \* self._connections: the idle list
    connection_count,  \* self._connection_count
    lock,              \* self._lock: None when free, else the thread holding it
    connState,         \* engine state of each handle: "unborn", "open", "closed"
    pc,                \* where each thread is
    conn,              \* the local variable conn of the pool call a thread is in
    held,              \* handles a caller got from get_connection and has not passed back
    inCtx,             \* whether the thread is inside get_connection_context
    ctxLog,            \* events of the thread's current or last scoped acquisition
    err,               \* the exception the thread's last pool call raised, if any
    invalid,           \* handles that failed the validation statement of return_connection
    outAtClose,        \* handles that were checked out when close_all last ran
    health,            \* each thread's health_check call: where it is, or what it returned
    builders,          \* the QueryBuilder objects: the state of each, by id
    calls,             \* number of chaining calls made so far
    result,            \* what the last build() call returned or raised
    trace,             \* the last call made on a builder, as its caller saw it
    partly,            \* handles whose configuration statements failed when they were opened
    stale,             \* stale[t]: handles thread t passed back and still refers to
    waiting,           \* waiting[t]: the pool call thread t has made and that waits for the lock
    config,            \* ClientConfig.max_connections of the client that owns the pool
    db,                \* the committed content of the database: a set of rows
    pending,           \* the writes each connection has executed and not yet committed
    cop,               \* each thread's client operation: where it is, or how it ended
    txn                \* each thread's client transaction() block

poolVars == <<connections, connection_count, lock, connState, pc, conn, held,
              inCtx, ctxLog, err, invalid, outAtClose, health, partly,
              stale, waiting>>

qbVars == <<builders, calls, result, trace>>

clientVars == <<config, db, pending, cop, txn>>

\* What a call made directly on the pool leaves alone when the engine accepts
\* every configuration statement.
offPool == <<qbVars, clientVars, partly, stale, waiting>>

vars == <<poolVars, qbVars, clientVars>>

Range(s) == {s[i] : i \in DOMAIN s}

\* The handles that are out of the pool: held by a caller, held by a scoped block,
\* or inside a return_connection call that has not finished.
CheckedOut ==
    (UNION {held[t] : t \in Threads})
       \cup {conn[t] : t \in {u \in Threads : pc[u] \in {"block", "rc_pool", "rc_dec"}}}

\* The handles a caller may use at this moment.
Holds(t) == held[t] \cup (IF pc[t] = "block" THEN {conn[t]} ELSE {})

\* Thread t is not inside health_check: the step is part of a call that t
\* makes on the pool directly, and what its last health_check gave is kept
\* no longer.
Plain(t) ==
    /\ health[t] \notin {"call", "leaving"}
    /\ health' = [health EXCEPT ![t] = "none"]

PoolInit ==
    /\ connections = <<>>
    /\ connection_count = 0
    /\ lock = None
    /\ connState = [h \in Handles |-> "unborn"]
    /\ pc = [t \in Threads |-> "idle"]
    /\ conn = [t \in Threads |-> None]
    /\ held = [t \in Threads |-> {}]
    /\ inCtx = [t \in Threads |-> FALSE]
    /\ ctxLog = [t \in Threads |-> <<>>]
    /\ err = [t \in Threads |-> "none"]
    /\ invalid = {}
    /\ outAtClose = {}
    /\ health = [t \in Threads |-> "none"]
    /\ partly = {}
    /\ stale = [t \in Threads |-> {}]
    /\ waiting = [t \in Threads |-> "none"]

(***************************************************************************)
(* ConnectionManager: helpers                                              *)
(***************************************************************************)
\* The handle a successful sqlite3.connect yields: one never opened before.
NewHandle == CHOOSE h \in Handles :
                /\ connState[h] = "unborn"
                /\ \A g \in Handles : connState[g] = "unborn" => h <= g

\* get_connection hands h to its caller: the body of the scoped acquisition
\* (conn = self.get_connection(); yield conn) or a plain caller.
Deliver(t, scoped, h) ==
    /\ err' = [err EXCEPT ![t] = "none"]
    /\ inCtx' = [inCtx EXCEPT ![t] = scoped]
    /\ IF scoped
         THEN /\ pc' = [pc EXCEPT ![t] = "block"]
              /\ conn' = [conn EXCEPT ![t] = h]
              /\ ctxLog' = [ctxLog EXCEPT ![t] = <<"acquire">>]
              /\ UNCHANGED held
         ELSE /\ pc' = [pc EXCEPT ![t] = "idle"]
              /\ conn' = [conn EXCEPT ![t] = None]
              /\ held' = [held EXCEPT ![t] = @ \cup {h}]
              /\ UNCHANGED ctxLog

\* get_connection raises e. In get_connection_context conn is still None, so the
\* except clause re-raises and the finally clause releases nothing.
RaiseFromAcquire(t, e) ==
    /\ err' = [err EXCEPT ![t] = e]
    /\ pc' = [pc EXCEPT ![t] = "idle"]
    /\ conn' = [conn EXCEPT ![t] = None]
    /\ inCtx' = [inCtx EXCEPT ![t] = FALSE]
    /\ UNCHANGED <<held, ctxLog>>

(***************************************************************************)
(* ConnectionManager.get_connection                                        *)
(***************************************************************************)
\* A creation that hands the new connection out without counting it.
create_and_count_uncounted(t, ok) ==
    /\ lock' = None
    /\ IF ok
         THEN /\ connState' = [connState EXCEPT ![NewHandle] = "open"]
              /\ Deliver(t, inCtx[t], NewHandle)
         ELSE /\ RaiseFromAcquire(t, "ConnectionError")
              /\ UNCHANGED connState
    /\ UNCHANGED <<connections, connection_count, invalid, outAtClose>>

\* A creation whose failure leaves the lock held.
create_and_count_keeps_lock(t, ok) ==
    /\ IF ok
         THEN /\ lock' = None
              /\ connState' = [connState EXCEPT ![NewHandle] = "open"]
              /\ connection_count' = connection_count + 1
              /\ Deliver(t, inCtx[t], NewHandle)
         ELSE /\ RaiseFromAcquire(t, "ConnectionError")
              /\ UNCHANGED <<lock, connState, connection_count>>
    /\ UNCHANGED <<connections, invalid, outAtClose>>

\* A creation that counts the connection before the engine has opened it.
create_and_count_first(t, ok) ==
    /\ lock' = None
    /\ connection_count' = connection_count + 1
    /\ IF ok
         THEN /\ connState' = [connState EXCEPT ![NewHandle] = "open"]
              /\ Deliver(t, inCtx[t], NewHandle)
         ELSE /\ RaiseFromAcquire(t, "ConnectionError")
              /\ UNCHANGED connState
    /\ UNCHANGED <<connections, invalid, outAtClose>>

\* Lines 151-154 and 159-161: conn = self.create_connection();
\* self._connection_count += 1; return conn.  ok: whether the engine opens the
\* connection; if not, create_connection raises ConnectionError and the with
\* statement releases the lock.
create_and_count(t, ok) ==
    /\ lock' = None
    /\ IF ok
         THEN /\ connState' = [connState EXCEPT ![NewHandle] = "open"]
              /\ connection_count' = connection_count + 1
              /\ Deliver(t, inCtx[t], NewHandle)
         ELSE /\ RaiseFromAcquire(t, "ConnectionError")
              /\ UNCHANGED <<connState, connection_count>>
    /\ UNCHANGED <<connections, invalid, outAtClose>>

\* The strict pool variant: the exhausted branch raises instead of creating.
create_under_lock_strict(t, ok) ==
    IF connection_count < max_connections
      THEN create_and_count(t, ok)
      ELSE /\ lock' = None
           /\ RaiseFromAcquire(t, "PoolExhaustedError")
           /\ UNCHANGED <<connState, connection_count, connections, invalid, outAtClose>>

\* Lines 150-161, reached with the idle list empty and the lock held.
create_under_lock(t, ok) ==
    IF connection_count < max_connections
      THEN create_and_count(t, ok)
      ELSE create_and_count(t, ok)   \* "pool exhausted": logs a warning, creates anyway

\* An acquire that hands out the last idle connection without removing it.
get_connection_nopop(t, scoped) ==
    /\ lock = None
    /\ connections # <<>> \/ \E h \in Handles : connState[h] = "unborn"
    /\ IF connections # <<>>
         THEN /\ Deliver(t, scoped, connections[Len(connections)])
              /\ UNCHANGED <<connections, lock, connection_count, connState>>
         ELSE /\ lock' = t
              /\ pc' = [pc EXCEPT ![t] = "gc_create"]
              /\ inCtx' = [inCtx EXCEPT ![t] = scoped]
              /\ ctxLog' = [ctxLog EXCEPT ![t] = IF scoped THEN <<>> ELSE @]
              /\ UNCHANGED <<connections, connection_count, connState, conn, held, err>>
    /\ UNCHANGED <<invalid, outAtClose>>

\* Lines 145-150: take the lock; pop an idle connection if there is one, else go on
\* to create one with the lock held.
get_connection(t, scoped) ==
    /\ lock = None
    /\ connections # <<>> \/ \E h \in Handles : connState[h] = "unborn"
    /\ IF connections # <<>>
         THEN /\ connections' = SubSeq(connections, 1, Len(connections) - 1)
              /\ Deliver(t, scoped, connections[Len(connections)])
              /\ UNCHANGED <<lock, connection_count, connState>>
         ELSE /\ lock' = t
              /\ pc' = [pc EXCEPT ![t] = "gc_create"]
              /\ inCtx' = [inCtx EXCEPT ![t] = scoped]
              /\ ctxLog' = [ctxLog EXCEPT ![t] = IF scoped THEN <<>> ELSE @]
              /\ UNCHANGED <<connections, connection_count, connState, conn, held, err>>
    /\ UNCHANGED <<invalid, outAtClose>>

GetConnection(t) ==
    /\ UNCHANGED offPool
    /\ Plain(t)
    /\ pc[t] = "idle"
    /\ get_connection(t, FALSE)

CreateConnection(t) ==
    /\ UNCHANGED offPool
    /\ Plain(t)
    /\ pc[t] = "gc_create"
    /\ \E ok \in BOOLEAN : create_under_lock(t, ok)

(***************************************************************************)
(* ConnectionManager.return_connection                                     *)
(***************************************************************************)
\* The call returns to the caller: a plain caller, or the finally clause of
\* get_connection_context, which then leaves the scope (its log ends with it).
FinishRelease(t) ==
    /\ ctxLog' = [ctxLog EXCEPT ![t] = <<>>]
    /\ pc' = [pc EXCEPT ![t] = "idle"]
    /\ conn' = [conn EXCEPT ![t] = None]
    /\ inCtx' = [inCtx EXCEPT ![t] = FALSE]

\* Lines 170-176 and 186-191, outside the lock: conn.execute("SELECT 1") on h.
\* On a closed handle it raises sqlite3.ProgrammingError, a sqlite3.Error: the
\* except clause closes h and goes on to decrement the count.
return_connection(t, h) ==
    /\ conn' = [conn EXCEPT ![t] = h]
    /\ IF connState[h] = "open"
         THEN /\ pc' = [pc EXCEPT ![t] = "rc_pool"]
              /\ UNCHANGED <<connState, invalid>>
         ELSE /\ pc' = [pc EXCEPT ![t] = "rc_dec"]
              /\ connState' = [connState EXCEPT ![h] = "closed"]
              /\ invalid' = invalid \cup {h}
    /\ UNCHANGED <<connections, connection_count, lock, err, outAtClose>>

\* A caller passes back a handle it holds.
ReturnConnection(t) ==
    /\ UNCHANGED offPool
    /\ Plain(t)
    /\ pc[t] = "idle"
    /\ \E h \in held[t] :
          /\ held' = [held EXCEPT ![t] = @ \ {h}]
          /\ return_connection(t, h)
          /\ UNCHANGED <<inCtx, ctxLog>>

\* A release that closes the connection when the idle list is full and keeps
\* counting it.
pool_or_close_nodecrement(t) ==
    /\ lock = None
    /\ IF Len(connections) < max_connections
         THEN /\ connections' = Append(connections, conn[t])
              /\ UNCHANGED <<connection_count, connState>>
         ELSE /\ connState' = [connState EXCEPT ![conn[t]] = "closed"]
              /\ UNCHANGED <<connections, connection_count>>
    /\ FinishRelease(t)
    /\ UNCHANGED <<lock, held, err, invalid, outAtClose>>

\* A release that puts every valid connection in the idle list.
pool_or_close_unbounded(t) ==
    /\ lock = None
    /\ connections' = Append(connections, conn[t])
    /\ FinishRelease(t)
    /\ UNCHANGED <<connection_count, connState, lock, held, err, invalid, outAtClose>>

\* Lines 177-184, under the lock, for a connection that passed validation.
pool_or_close(t) ==
    /\ lock = None
    /\ IF Len(connections) < max_connections
         THEN /\ connections' = Append(connections, conn[t])
              /\ UNCHANGED <<connection_count, connState>>
         ELSE /\ connState' = [connState EXCEPT ![conn[t]] = "closed"]
              /\ connection_count' = connection_count - 1
              /\ UNCHANGED connections
    /\ FinishRelease(t)
    /\ UNCHANGED <<lock, held, err, invalid, outAtClose>>

PoolOrClose(t) ==
    /\ UNCHANGED offPool
    /\ Plain(t)
    /\ pc[t] = "rc_pool"
    /\ pool_or_close(t)

\* A release that re-pools the connection that failed validation.
drop_invalid_repool(t) ==
    /\ lock = None
    /\ connections' = Append(connections, conn[t])
    /\ connection_count' = connection_count - 1
    /\ FinishRelease(t)
    /\ UNCHANGED <<connState, lock, held, err, invalid, outAtClose>>

\* Lines 192-193, under the lock, for a connection that failed validation.
drop_invalid(t) ==
    /\ lock = None
    /\ connection_count' = connection_count - 1
    /\ FinishRelease(t)
    /\ UNCHANGED <<connections, connState, lock, held, err, invalid, outAtClose>>

DropInvalid(t) ==
    /\ UNCHANGED offPool
    /\ Plain(t)
    /\ pc[t] = "rc_dec"
    /\ drop_invalid(t)

(***************************************************************************)
(* ConnectionManager.close_all                                             *)
(***************************************************************************)
\* A close_all that closes the connections that are checked out as well.
close_all_checked_out_too ==
    /\ lock = None
    /\ connState' = [h \in Handles |->
                        IF connState[h] = "open" THEN "closed" ELSE connState[h]]
    /\ connections' = <<>>
    /\ connection_count' = 0
    /\ outAtClose' = CheckedOut
    /\ UNCHANGED <<lock, pc, conn, held, inCtx, ctxLog, err, invalid>>

\* Lines 198-206, under the lock.
close_all ==
    /\ lock = None
    /\ connState' = [h \in Handles |->
                        IF h \in Range(connections) THEN "closed" ELSE connState[h]]
    /\ connections' = <<>>
    /\ connection_count' = 0
    /\ outAtClose' = CheckedOut
    /\ UNCHANGED <<lock, pc, conn, held, inCtx, ctxLog, err, invalid>>

CloseAll(t) ==
    /\ UNCHANGED offPool
    /\ Plain(t)
    /\ pc[t] = "idle"
    /\ close_all

(***************************************************************************)
(* ConnectionManager.get_connection_context                                *)
(***************************************************************************)
\* Lines 216-218: conn = None; conn = self.get_connection().
GetConnectionContext(t) ==
    /\ UNCHANGED offPool
    /\ Plain(t)
    /\ pc[t] = "idle"
    /\ get_connection(t, TRUE)

ExitKinds == {"normal", "return", "raise"}

\* A scope that releases only when its block did not fail: on a failure the
\* connection stays with the caller.
leave_block_norelease(t, kind) ==
    IF kind = "raise"
      THEN /\ ctxLog' = [ctxLog EXCEPT ![t] = <<>>]
           /\ pc' = [pc EXCEPT ![t] = "idle"]
           /\ conn' = [conn EXCEPT ![t] = None]
           /\ inCtx' = [inCtx EXCEPT ![t] = FALSE]
           /\ held' = [held EXCEPT ![t] = @ \cup {conn[t]}]
           /\ UNCHANGED <<connections, connection_count, lock, connState, err,
                          invalid, outAtClose>>
      ELSE /\ ctxLog' = [ctxLog EXCEPT ![t] = @ \o <<kind, "release">>]
           /\ return_connection(t, conn[t])
           /\ UNCHANGED <<held, inCtx>>

\* Lines 219-229: the caller's block ends normally, by an early return, or by
\* raising (then the except clause tries conn.rollback() and re-raises); in each
\* case the finally clause calls return_connection(conn).
leave_block(t, kind) ==
    /\ ctxLog' = [ctxLog EXCEPT ![t] = @ \o <<kind, "release">>]
    /\ return_connection(t, conn[t])
    /\ UNCHANGED <<held, inCtx>>

LeaveBlock(t) ==
    /\ UNCHANGED offPool
    /\ Plain(t)
    /\ pc[t] = "block"
    /\ \E kind \in ExitKinds : leave_block(t, kind)

(***************************************************************************)
(* Callers                                                                 *)
(***************************************************************************)
\* The holder of a connection closes it (or the connection breaks) while it is
\* checked out.
BreakConnection(t) ==
    /\ UNCHANGED <<offPool, health>>
    /\ pc[t] \in {"idle", "block"}
    /\ \E h \in Holds(t) :
          /\ connState[h] = "open"
          /\ connState' = [connState EXCEPT ![h] = "closed"]
    /\ UNCHANGED <<connections, connection_count, lock, pc, conn, held, inCtx,
                   ctxLog, err, invalid, outAtClose>>

PoolNext ==
    \E t \in Threads :
       \/ GetConnection(t)
       \/ CreateConnection(t)
       \/ ReturnConnection(t)
       \/ PoolOrClose(t)
       \/ DropInvalid(t)
       \/ CloseAll(t)
       \/ GetConnectionContext(t)
       \/ LeaveBlock(t)
       \/ BreakConnection(t)

(***************************************************************************)
(* SQLClient: construction (sqll/client.py)                                *)
(***************************************************************************)
\* The rows a table of the database can hold; a row is identified by the value
\* of its UNIQUE column.
Rows == {"alice", "bob"}

\* The values a caller can pass as max_connections when constructing the
\* client: the default, which is the number ConnectionManager.__init__ sets,
\* and the values around it.
ConfigValues == 1..(max_connections + 1)

NoStatement == [kind |-> "none", row |-> "", to |-> ""]

\* The arguments of a call that has none.
NoArgs == [table |-> TRUE, data |-> <<>>, where |-> <<>>, sql |-> NoStatement]

\* No client operation is in progress and none has ended.
NoOp == [op |-> "none", args |-> NoArgs, stage |-> "none", outcome |-> "none"]

\* No transaction() block is open and none has ended.
NoTxn == [stage |-> "none", before |-> {}, alone |-> TRUE, outcome |-> "none",
          log |-> <<>>]

\* SQLClient.__init__(db_path, max_connections=m): self.config keeps m; the
\* ConnectionConfig handed to ConnectionManager has no max_connections field,
\* and ConnectionManager.__init__ sets self._max_connections itself.
SQLClient_init(m) ==
    /\ config = m
    /\ cop = [t \in Threads |-> NoOp]
    /\ txn = [t \in Threads |-> NoTxn]

\* The database file holds the rows d, and no connection has uncommitted work.
Database(d) ==
    /\ db = d
    /\ pending = [h \in Handles |-> <<>>]

\* A client constructed without max_connections (the default of ClientConfig
\* is the number ConnectionManager.__init__ sets) on an empty database.
DefaultClient == SQLClient_init(max_connections) /\ Database({})


(***************************************************************************)
(* Properties of the pool                                                  *)
(***************************************************************************)
\* C1: in every reachable state the number of idle connections plus the number
\* of checked-out connections is at most max_connections.
C1_PoolBounded ==
    Len(connections) + Cardinality(CheckedOut) <= max_connections

\* C2: no handle is held by two callers at the same time, and no handle is at
\* once in the idle list and checked out (callers release what they hold, once).
C2_ExclusiveOwnership ==
    /\ \A t1, t2 \in Threads : t1 # t2 => Holds(t1) \cap Holds(t2) = {}
    /\ Range(connections) \cap CheckedOut = {}

\* Two callers hold connections while the idle list holds a released one.
C2_Witness ==
    \E t1, t2 \in Threads :
       /\ t1 # t2
       /\ Holds(t1) # {}
       /\ pc[t2] = "rc_pool"

\* max_connections or more connections are checked out and none is idle.
Exhausted ==
    /\ connections = <<>>
    /\ Cardinality(CheckedOut) >= max_connections

C4_InvalidNeverReused ==
    \A h \in invalid :
       /\ connState[h] = "closed"
       /\ h \notin Range(connections)
       /\ \A t \in Threads : h \notin Holds(t)

\* A broken connection was released, and a later acquire has returned.
C4_Witness ==
    /\ invalid # {}
    /\ \E t \in Threads : Holds(t) # {} /\ pc[t] = "idle"
    /\ \A t \in Threads : pc[t] = "idle"

Releases(log) == Cardinality({i \in DOMAIN log : log[i] = "release"})

\* C5: a scoped acquisition that got a connection passes it to release exactly
\* once before the scope is left, whatever the way its block ended, and the
\* connection is no longer checked out when the scope has been left.
C5_ScopedReleaseOnce ==
    [][\A t \in Threads :
          (inCtx[t] /\ ~inCtx'[t] /\ pc[t] # "gc_create")
             => /\ Releases(ctxLog[t]) = 1
                /\ pc[t] \in {"rc_pool", "rc_dec"}
                /\ conn[t] \notin CheckedOut']_vars

\* A block that failed has reached the release of its connection, while another
\* block ended by an early return.
C5_Witness ==
    \E t1, t2 \in Threads :
       /\ inCtx[t1] /\ pc[t1] \in {"rc_pool", "rc_dec"}
       /\ ctxLog[t1] = <<"acquire", "raise", "release">>
       /\ inCtx[t2] /\ pc[t2] \in {"rc_pool", "rc_dec"}
       /\ ctxLog[t2] = <<"acquire", "return", "release">>

\* C6: a connection that was checked out when close_all ran is closed when it is
\* released, not put in the idle list: it is never idle afterwards.
C6_ReleaseAfterCloseAll ==
    Range(connections) \cap outAtClose = {}

(***************************************************************************)
(* QueryBuilder (sqll/query_builder.py)                                    *)
(*                                                                         *)
(* A Python string is modelled as a Text: the sequence of its pieces, the  *)
(* empty string being <<>>; a placeholder is the piece "?".  Str gives the *)
(* string itself.  An Optional value is <<>> (None) or <<x>>.              *)
(***************************************************************************)
RECURSIVE Str(_)
Str(text) == IF text = <<>> THEN "" ELSE Head(text) \o Str(Tail(text))

\* sep.join(texts)
RECURSIVE JoinWith(_, _)
JoinWith(texts, sep) ==
    IF texts = <<>> THEN <<>>
    ELSE IF Len(texts) = 1 THEN texts[1]
    ELSE texts[1] \o sep \o JoinWith(Tail(texts), sep)

\* The concatenation of a list of tuples, as repeated list.extend builds it.
RECURSIVE Flatten(_)
Flatten(seqs) == IF seqs = <<>> THEN <<>> ELSE Head(seqs) \o Flatten(Tail(seqs))

\* Number of "?" placeholders in a text.
CountPlaceholders(text) == Cardinality({i \in DOMAIN text : text[i] = "?"})

\* Truth value of an Optional[str]: None and "" are false.
Truthy(opt) == opt # <<>> /\ opt[1] # <<>>

\* QueryBuilder.__init__
EmptyBuilder ==
    [select_columns   |-> <<>>,
     from_table       |-> <<>>,
     joins            |-> <<>>,
     where_clauses    |-> <<>>,
     group_by_columns |-> <<>>,
     having_clauses   |-> <<>>,
     order_by_columns |-> <<>>,
     limit_count      |-> <<>>,
     offset_count     |-> <<>>,
     distinct         |-> FALSE,
     union_queries    |-> <<>>]

\* The chaining methods, as functions from the builder's state to its new state.
\* A select that replaces the projection instead of adding to it.
select_replacing(q, columns) ==
    [q EXCEPT !.select_columns = columns]

select(q, columns) ==
    [q EXCEPT !.select_columns = @ \o columns]

select_distinct(q, columns) ==
    [q EXCEPT !.distinct = TRUE, !.select_columns = @ \o columns]

\* A from_table that changes the alias only when it is given one.
from_table_keeps_alias(q, table, alias) ==
    [q EXCEPT !.from_table =
        IF Truthy(alias) THEN <<table \o <<" ">> \o alias[1]>>
        ELSE IF @ # <<>> /\ Len(@[1]) = 3 THEN <<table \o SubSeq(@[1], 2, 3)>>
        ELSE <<table>>]

from_table(q, table, alias) ==
    [q EXCEPT !.from_table = IF Truthy(alias) THEN <<table \o <<" ">> \o alias[1]>>
                                              ELSE <<table>>]

join(q, table, condition, join_type, alias) ==
    [q EXCEPT !.joins = Append(@, [table |-> table, condition |-> condition,
                                   join_type |-> join_type, alias |-> alias])]

inner_join(q, table, condition, alias) == join(q, table, condition, "INNER JOIN", alias)

left_join(q, table, condition, alias) == join(q, table, condition, "LEFT JOIN", alias)

right_join(q, table, condition, alias) == join(q, table, condition, "RIGHT JOIN", alias)

full_join(q, table, condition, alias) == join(q, table, condition, "FULL OUTER JOIN", alias)

cross_join(q, table, alias) == join(q, table, <<>>, "CROSS JOIN", alias)

where(q, condition, params) ==
    [q EXCEPT !.where_clauses = Append(@, [condition |-> condition, params |-> params])]

\* ", ".join("?" * n)
Placeholders(n) == JoinWith([i \in 1..n |-> <<"?">>], <<", ">>)

\* A where_in with no case for an empty list of values.
where_in_empty_parens(q, column, values) ==
    where(q, column \o <<" IN (">> \o Placeholders(Len(values)) \o <<")">>, values)

where_in(q, column, values) ==
    IF values = <<>>
      THEN where(q, <<"1 = 0">>, <<>>)
      ELSE where(q, column \o <<" IN (">> \o Placeholders(Len(values)) \o <<")">>, values)

\* A where_not_in that treats an empty list of values as where_in does.
where_not_in_always_false(q, column, values) ==
    IF values = <<>>
      THEN where(q, <<"1 = 0">>, <<>>)
      ELSE where(q, column \o <<" NOT IN (">> \o Placeholders(Len(values)) \o <<")">>, values)

where_not_in(q, column, values) ==
    IF values = <<>>
      THEN q
      ELSE where(q, column \o <<" NOT IN (">> \o Placeholders(Len(values)) \o <<")">>, values)

where_between(q, column, start, end) ==
    where(q, column \o <<" BETWEEN ">> \o <<"?">> \o <<" AND ">> \o <<"?">>, <<start, end>>)

where_like(q, column, pattern) == where(q, column \o <<" LIKE ">> \o <<"?">>, <<pattern>>)

where_is_null(q, column) == where(q, column \o <<" IS NULL">>, <<>>)

where_is_not_null(q, column) == where(q, column \o <<" IS NOT NULL">>, <<>>)

group_by(q, columns) ==
    [q EXCEPT !.group_by_columns = @ \o columns]

having(q, condition, params) ==
    [q EXCEPT !.having_clauses = Append(@, [condition |-> condition, params |-> params])]

order_by(q, column, direction) ==
    [q EXCEPT !.order_by_columns = Append(@, [column |-> column, direction |-> direction])]

limit(q, count) == [q EXCEPT !.limit_count = <<count>>]

offset(q, count) == [q EXCEPT !.offset_count = <<count>>]

\* other_query is a reference: the id of the other builder.
union(q, other_query) ==
    [q EXCEPT !.union_queries = Append(@, other_query)]

\* A clone that leaves the WHERE predicates behind.
clone_without_where(q) == [q EXCEPT !.where_clauses = <<>>]

\* clone() gives the new builder its own copy of every list, and the same
\* elements: a list is modelled by its value, a unioned sub-builder by its id.
clone(q) ==
    [select_columns   |-> q.select_columns,
     from_table       |-> q.from_table,
     joins            |-> q.joins,
     where_clauses    |-> q.where_clauses,
     group_by_columns |-> q.group_by_columns,
     having_clauses   |-> q.having_clauses,
     order_by_columns |-> q.order_by_columns,
     limit_count      |-> q.limit_count,
     offset_count     |-> q.offset_count,
     distinct         |-> q.distinct,
     union_queries    |-> q.union_queries]

\* The convenience constructors at the end of the file.
select_from(table, columns) == from_table(select(EmptyBuilder, columns), table, <<>>)

exists_in(table, condition, params) ==
    where(from_table(select(EmptyBuilder, <<<<"1">>>>), table, <<>>), condition, params)

(***************************************************************************)
(* QueryBuilder.build                                                      *)
(***************************************************************************)
\* A build that checks the FROM target only.
state_error_from_only(q) ==
    IF ~Truthy(q.from_table) THEN "FROM clause is required" ELSE "none"

\* Lines 341-342 and 349-350: the two checks that raise ValueError.
state_error(q) ==
    IF q.select_columns = <<>> THEN "SELECT clause is required"
    ELSE IF ~Truthy(q.from_table) THEN "FROM clause is required"
    ELSE "none"

\* Lines 356-363: the text of one join.
join_part(j) ==
    LET table_str == IF Truthy(j.alias) THEN j.table \o <<" ">> \o j.alias[1]
                                        ELSE j.table
    IN  IF j.join_type = "CROSS JOIN"
          THEN <<j.join_type>> \o <<" ">> \o table_str
          ELSE <<j.join_type>> \o <<" ">> \o table_str \o <<" ON ">> \o j.condition

Conditions(clauses) == [i \in DOMAIN clauses |-> clauses[i].condition]

OptPart(present, text) == IF present THEN <<text>> ELSE <<>>

\* Lines 344-346: the SELECT clause.
select_part(q) ==
    <<<<"SELECT ">> \o (IF q.distinct THEN <<"DISTINCT ">> ELSE <<>>)
                   \o JoinWith(q.select_columns, <<", ">>)>>

\* Line 352: the FROM clause.
from_part(q) == <<<<"FROM ">> \o q.from_table[1]>>

\* Lines 355-363: the JOIN clauses, in call order.
join_parts(q) == [i \in DOMAIN q.joins |-> join_part(q.joins[i])]

\* Lines 366-372: the WHERE clause.
where_part(q) ==
    OptPart(q.where_clauses # <<>>,
            <<"WHERE ">> \o JoinWith(Conditions(q.where_clauses), <<" AND ">>))

\* Lines 375-376: the GROUP BY clause.
group_by_part(q) ==
    OptPart(q.group_by_columns # <<>>,
            <<"GROUP BY ">> \o JoinWith(q.group_by_columns, <<", ">>))

\* Lines 379-385: the HAVING clause.
having_part(q) ==
    OptPart(q.having_clauses # <<>>,
            <<"HAVING ">> \o JoinWith(Conditions(q.having_clauses), <<" AND ">>))

\* Lines 388-392: the ORDER BY clause.
order_by_part(q) ==
    OptPart(q.order_by_columns # <<>>,
            <<"ORDER BY ">> \o JoinWith([i \in DOMAIN q.order_by_columns |->
                                           q.order_by_columns[i].column \o <<" ">>
                                              \o <<q.order_by_columns[i].direction>>],
                                        <<", ">>))

\* Lines 395-396: the LIMIT clause.
limit_part(q) ==
    OptPart(q.limit_count # <<>>, <<"LIMIT ">> \o <<ToString(q.limit_count[1])>>)

\* Lines 399-400: the OFFSET clause.
offset_part(q) ==
    OptPart(q.offset_count # <<>>, <<"OFFSET ">> \o <<ToString(q.offset_count[1])>>)

\* A build that emits HAVING before GROUP BY and OFFSET before LIMIT.
sql_parts_swapped(q) ==
    select_part(q) \o from_part(q) \o join_parts(q) \o where_part(q)
      \o having_part(q) \o group_by_part(q) \o order_by_part(q)
      \o offset_part(q) \o limit_part(q)

\* Lines 337-400: sql_parts, the list of clause texts in emission order.
sql_parts(q) ==
    select_part(q) \o from_part(q) \o join_parts(q) \o where_part(q)
      \o group_by_part(q) \o having_part(q) \o order_by_part(q)
      \o limit_part(q) \o offset_part(q)

ParamsOf(clauses) == Flatten([i \in DOMAIN clauses |-> clauses[i].params])

\* A build that collects the HAVING values before the WHERE values.
main_params_having_first(q) == ParamsOf(q.having_clauses) \o ParamsOf(q.where_clauses)

\* A build that drops the values of the HAVING clauses.
main_params_where_only(q) == ParamsOf(q.where_clauses)

\* Lines 370 and 383: params.extend for the WHERE clauses, then the HAVING clauses.
main_params(q) == ParamsOf(q.where_clauses) \o ParamsOf(q.having_clauses)

Raised(e, message) == [status |-> e, message |-> message, sql |-> <<>>, params |-> <<>>]

Returned(sql, params) == [status |-> "ok", message |-> "", sql |-> sql, params |-> params]

\* Lines 330-415. heap: the builders by id; b: the builder built; depth: the
\* number of build() calls this one is nested in.
RECURSIVE build(_, _, _)
RECURSIVE build_unions(_, _, _, _, _)
\* A union loop that leaves out the branches that fail to build.
build_unions_skip_failed(heap, unions, depth, sql, params) ==
    IF unions = <<>> THEN Returned(sql, params)
    ELSE LET r == build(heap, Head(unions), depth + 1)
         IN  IF r.status # "ok" THEN build_unions(heap, Tail(unions), depth, sql, params)
             ELSE build_unions(heap, Tail(unions), depth,
                               sql \o <<" ">> \o <<"UNION ">> \o r.sql,
                               params \o r.params)

\* A union loop that puts a branch's parameters before those collected so far.
build_unions_params_first(heap, unions, depth, sql, params) ==
    IF unions = <<>> THEN Returned(sql, params)
    ELSE LET r == build(heap, Head(unions), depth + 1)
         IN  IF r.status # "ok" THEN r
             ELSE build_unions(heap, Tail(unions), depth,
                               sql \o <<" ">> \o <<"UNION ">> \o r.sql,
                               r.params \o params)

build(heap, b, depth) ==
    IF depth > RecursionLimit THEN Raised("RecursionError", "maximum recursion depth exceeded")
    ELSE IF state_error(heap[b]) # "none" THEN Raised("ValueError", state_error(heap[b]))
    ELSE build_unions(heap, heap[b].union_queries, depth,
                      JoinWith(sql_parts(heap[b]), <<" ">>), main_params(heap[b]))

\* Lines 406-413: the loop over self._union_queries; an exception of a
\* sub-builder's build() ends it.
build_unions(heap, unions, depth, sql, params) ==
    IF unions = <<>> THEN Returned(sql, params)
    ELSE LET r == build(heap, Head(unions), depth + 1)
         IN  IF r.status # "ok" THEN r
             ELSE build_unions(heap, Tail(unions), depth,
                               sql \o <<" ">> \o <<"UNION ">> \o r.sql,
                               params \o r.params)

(***************************************************************************)
(* Callers of the builder                                                  *)
(***************************************************************************)
BuilderIds == {1, 2}

NoResult == [of |-> None, status |-> "none", message |-> "", sql |-> <<>>, params |-> <<>>]

\* No call on a builder has been recorded.
NoCall == [op |-> "none", self |-> None, args |-> <<>>, ret |-> None,
           raised |-> FALSE, n |-> 0, cloned |-> <<>>]

\* Builders as their constructors leave them.
InitialBuilders ==
    {EmptyBuilder,
     exists_in(<<"u">>, <<"z=", "?">>, <<3>>)}

QBInit ==
    /\ builders \in [BuilderIds -> InitialBuilders]
    /\ calls = 0
    /\ result = NoResult
    /\ trace = NoCall

\* The builders while only the pool is exercised.
NoBuilders ==
    /\ builders = [b \in BuilderIds |-> EmptyBuilder]
    /\ calls = 0
    /\ result = NoResult
    /\ trace = NoCall

PoolSpecInit == PoolInit /\ DefaultClient /\ NoBuilders

PoolSpec == PoolSpecInit /\ [][PoolNext]_vars

\* What a chaining call leaves alone, and the bookkeeping of the callers.
Called ==
    /\ calls' = calls + 1
    /\ result' = NoResult
    /\ UNCHANGED <<trace, poolVars, clientVars>>

Select(b) ==
    /\ calls < MaxCalls
    /\ builders' = [builders EXCEPT ![b] = select(@, <<<<"a">>>>)]
    /\ Called

SelectDistinct(b) ==
    /\ calls < MaxCalls
    /\ builders' = [builders EXCEPT ![b] = select_distinct(@, <<<<"b">>>>)]
    /\ Called

FromTable(b) ==
    /\ calls < MaxCalls
    /\ builders' = [builders EXCEPT ![b] = from_table(@, <<"t">>, <<<<"x">>>>)]
    /\ Called

Join(b) ==
    /\ calls < MaxCalls
    /\ \E j \in {inner_join(builders[b], <<"u">>, <<"u.k = ", "?">>, <<<<"y">>>>),
                 cross_join(builders[b], <<"w">>, <<>>)} :
          builders' = [builders EXCEPT ![b] = j]
    /\ Called

Where(b) ==
    /\ calls < MaxCalls
    /\ \E p \in {[condition |-> <<"x=", "?">>, params |-> <<1>>],
                 [condition |-> <<"y=", "?">>, params |-> <<>>]} :
          builders' = [builders EXCEPT ![b] = where(@, p.condition, p.params)]
    /\ Called

WhereIn(b) ==
    /\ calls < MaxCalls
    /\ builders' = [builders EXCEPT ![b] = where_in(@, <<"k">>, <<1, 2>>)]
    /\ Called

WhereBetween(b) ==
    /\ calls < MaxCalls
    /\ builders' = [builders EXCEPT ![b] = where_between(@, <<"n">>, 1, 3)]
    /\ Called

GroupBy(b) ==
    /\ calls < MaxCalls
    /\ builders' = [builders EXCEPT ![b] = group_by(@, <<<<"a">>>>)]
    /\ Called

Having(b) ==
    /\ calls < MaxCalls
    /\ builders' = [builders EXCEPT ![b] = having(@, <<"count(*)>", "?">>, <<2>>)]
    /\ Called

OrderBy(b) ==
    /\ calls < MaxCalls
    /\ builders' = [builders EXCEPT ![b] = order_by(@, <<"a">>, "DESC")]
    /\ Called

Limit(b) ==
    /\ calls < MaxCalls
    /\ builders' = [builders EXCEPT ![b] = limit(@, 5)]
    /\ Called

Offset(b) ==
    /\ calls < MaxCalls
    /\ builders' = [builders EXCEPT ![b] = offset(@, 10)]
    /\ Called

Union(b) ==
    /\ calls < MaxCalls
    /\ \E other \in BuilderIds :
          builders' = [builders EXCEPT ![b] = union(@, other)]
    /\ Called

Build(b) ==
    /\ result' = [of |-> b] @@ build(builders, b, 0)
    /\ UNCHANGED <<builders, calls, trace, poolVars, clientVars>>

QBNext ==
    \E b \in BuilderIds :
       \/ Select(b)
       \/ SelectDistinct(b)
       \/ FromTable(b)
       \/ Join(b)
       \/ Where(b)
       \/ WhereIn(b)
       \/ WhereBetween(b)
       \/ GroupBy(b)
       \/ Having(b)
       \/ OrderBy(b)
       \/ Limit(b)
       \/ Offset(b)
       \/ Union(b)
       \/ Build(b)

QBSpecInit == PoolInit /\ DefaultClient /\ QBInit

QBSpec == QBSpecInit /\ [][QBNext]_vars

(***************************************************************************)
(* Properties of the builder                                               *)
(***************************************************************************)
\* The builder has at least one selected column and a FROM target.
HasSelectAndFrom(q) == q.select_columns # <<>> /\ Truthy(q.from_table)

\* Each WHERE and HAVING predicate carries as many values as it has placeholders.
PredicatesMatch(q) ==
    /\ \A i \in DOMAIN q.where_clauses :
          CountPlaceholders(q.where_clauses[i].condition) = Len(q.where_clauses[i].params)
    /\ \A i \in DOMAIN q.having_clauses :
          CountPlaceholders(q.having_clauses[i].condition) = Len(q.having_clauses[i].params)

\* No placeholder stands in a text that carries no values: the projection, the
\* FROM target, the joins, the GROUP BY columns and the ORDER BY terms.
NoStrayPlaceholder(q) ==
    /\ \A i \in DOMAIN q.select_columns : CountPlaceholders(q.select_columns[i]) = 0
    /\ q.from_table # <<>> => CountPlaceholders(q.from_table[1]) = 0
    /\ \A i \in DOMAIN q.joins : CountPlaceholders(join_part(q.joins[i])) = 0
    /\ \A i \in DOMAIN q.group_by_columns : CountPlaceholders(q.group_by_columns[i]) = 0
    /\ \A i \in DOMAIN q.order_by_columns : CountPlaceholders(q.order_by_columns[i].column) = 0

\* The builders reached from those of set by following union references.
RECURSIVE UnionClosure(_, _)
UnionClosure(heap, set) ==
    LET next == set \cup UNION {Range(heap[b].union_queries) : b \in set}
    IN  IF next = set THEN set ELSE UnionClosure(heap, next)

\* b and the builders its build() compiles.
Reach(heap, b) == UnionClosure(heap, {b})

\* No builder that build(b) compiles is unioned, directly or not, with itself.
Acyclic(heap, b) ==
    \A c \in Reach(heap, b) : c \notin UnionClosure(heap, Range(heap[c].union_queries))

Built == result.status # "none"

Tag(v) == "#" \o ToString(v)

ParamValues == 1..3

\* condition with its k-th placeholder replaced by the tag of params[k].
RECURSIVE BindText(_, _)
BindText(condition, params) ==
    IF condition = <<>> THEN <<>>
    ELSE IF Head(condition) = "?" /\ params # <<>>
           THEN <<Tag(Head(params))>> \o BindText(Tail(condition), Tail(params))
           ELSE <<Head(condition)>> \o BindText(Tail(condition), params)

BindClauses(clauses) ==
    [i \in DOMAIN clauses |->
        [condition |-> BindText(clauses[i].condition, clauses[i].params),
         params |-> clauses[i].params]]

\* The builders with every predicate's values written into its text.
BindAll(heap) ==
    [b \in DOMAIN heap |->
        [heap[b] EXCEPT !.where_clauses = BindClauses(@),
                        !.having_clauses = BindClauses(@)]]

\* The values a text binds, in the order of the text; None for a placeholder
\* that has no value written into it.
RECURSIVE BoundValues(_)
BoundValues(text) ==
    IF text = <<>> THEN <<>>
    ELSE IF Head(text) = "?" THEN <<None>> \o BoundValues(Tail(text))
    ELSE IF \E v \in ParamValues : Head(text) = Tag(v)
           THEN <<CHOOSE v \in ParamValues : Head(text) = Tag(v)>> \o BoundValues(Tail(text))
    ELSE BoundValues(Tail(text))

\* The parameters in the order the claim gives: the WHERE values, the HAVING
\* values, then each union branch's own parameters.
OrderedParams(heap, b) ==
    ParamsOf(heap[b].where_clauses) \o ParamsOf(heap[b].having_clauses)
      \o Flatten([i \in DOMAIN heap[b].union_queries |->
                     build(heap, heap[b].union_queries[i], 1).params])

\* The Nth placeholder of the text binds to the Nth returned value: the values
\* the predicates put in their placeholders, read off the text in order, are
\* the returned parameters.
NthBindsNth ==
    /\ result.params = OrderedParams(builders, result.of)
    /\ result.params = BoundValues(build(BindAll(builders), result.of, 0).sql)

C9_MissingSelectOrFromFails ==
    (Built /\ ~HasSelectAndFrom(builders[result.of]))
       => /\ result.status = "ValueError"
          /\ result.sql = <<>>
          /\ result.params = <<>>

\* build() raised on a builder that has a FROM target, predicates and a union,
\* but no selected column.
C9_Witness ==
    /\ result.status = "ValueError"
    /\ result.message = "SELECT clause is required"
    /\ Truthy(builders[result.of].from_table)
    /\ builders[result.of].where_clauses # <<>>

(***************************************************************************)
(* The chain select, from, where, group_by, having, order_by, limit and    *)
(* offset of the clause-order example, and an inner join, each called at   *)
(* most once on builder 1, in any order.                                   *)
(***************************************************************************)
ChainInit ==
    /\ PoolInit
    /\ DefaultClient
    /\ builders = [b \in BuilderIds |-> EmptyBuilder]
    /\ calls = 0
    /\ result = NoResult
    /\ trace = NoCall

ChainSelect ==
    /\ builders[1].select_columns = <<>>
    /\ builders' = [builders EXCEPT ![1] = select(@, <<<<"a">>>>)]
    /\ Called

ChainFrom ==
    /\ builders[1].from_table = <<>>
    /\ builders' = [builders EXCEPT ![1] = from_table(@, <<"t">>, <<>>)]
    /\ Called

ChainJoin ==
    /\ builders[1].joins = <<>>
    /\ builders' = [builders EXCEPT ![1] = inner_join(@, <<"u">>, <<"u.id = t.id">>, <<>>)]
    /\ Called

ChainWhere ==
    /\ builders[1].where_clauses = <<>>
    /\ builders' = [builders EXCEPT ![1] = where(@, <<"x=", "?">>, <<1>>)]
    /\ Called

ChainGroupBy ==
    /\ builders[1].group_by_columns = <<>>
    /\ builders' = [builders EXCEPT ![1] = group_by(@, <<<<"a">>>>)]
    /\ Called

ChainHaving ==
    /\ builders[1].having_clauses = <<>>
    /\ builders' = [builders EXCEPT ![1] = having(@, <<"count(*)>", "?">>, <<2>>)]
    /\ Called

\* order_by("a"): direction defaults to OrderDirection.ASC.
ChainOrderBy ==
    /\ builders[1].order_by_columns = <<>>
    /\ builders' = [builders EXCEPT ![1] = order_by(@, <<"a">>, "ASC")]
    /\ Called

ChainLimit ==
    /\ builders[1].limit_count = <<>>
    /\ builders' = [builders EXCEPT ![1] = limit(@, 5)]
    /\ Called

ChainOffset ==
    /\ builders[1].offset_count = <<>>
    /\ builders' = [builders EXCEPT ![1] = offset(@, 10)]
    /\ Called

ChainBuild == Build(1)

ChainNext ==
    \/ ChainSelect
    \/ ChainFrom
    \/ ChainJoin
    \/ ChainWhere
    \/ ChainGroupBy
    \/ ChainHaving
    \/ ChainOrderBy
    \/ ChainLimit
    \/ ChainOffset
    \/ ChainBuild

ChainSpec == ChainInit /\ [][ChainNext]_vars

\* The eight calls of the chain have all been made on q, and no join.
FullChain(q) ==
    /\ q.select_columns # <<>> /\ q.from_table # <<>> /\ q.where_clauses # <<>>
    /\ q.group_by_columns # <<>> /\ q.having_clauses # <<>>
    /\ q.order_by_columns # <<>> /\ q.limit_count # <<>> /\ q.offset_count # <<>>
    /\ q.joins = <<>>

\* The place of a clause keyword in the fixed order; 0 for any other piece.
ClauseRank(piece) ==
    CASE piece = "SELECT " -> 1
      [] piece = "FROM " -> 2
      [] piece = "INNER JOIN" -> 3
      [] piece = "WHERE " -> 4
      [] piece = "GROUP BY " -> 5
      [] piece = "HAVING " -> 6
      [] piece = "ORDER BY " -> 7
      [] piece = "LIMIT " -> 8
      [] piece = "OFFSET " -> 9
      [] OTHER -> 0

\* The clause keywords of a text stand in the fixed order.
ClausesInOrder(text) ==
    \A i, j \in DOMAIN text :
       (i < j /\ ClauseRank(text[i]) > 0 /\ ClauseRank(text[j]) > 0)
          => ClauseRank(text[i]) < ClauseRank(text[j])

\* C10: whatever the order of the chaining calls, build() emits the clauses in
\* the order SELECT, FROM, JOIN, WHERE, GROUP BY, HAVING, ORDER BY, LIMIT, OFFSET,
\* and the full chain builds exactly the text and parameters given.
C10_ClauseOrder ==
    /\ result.status = "ok" => ClausesInOrder(result.sql)
    /\ (Built /\ FullChain(builders[1]))
          => /\ result.status = "ok"
             /\ Str(result.sql) = "SELECT a FROM t WHERE x=? GROUP BY a HAVING count(*)>? ORDER BY a ASC LIMIT 5 OFFSET 10"
             /\ result.params = <<1, 2>>
    /\ (Built /\ builders[1].joins # <<>> /\ FullChain([builders[1] EXCEPT !.joins = <<>>]))
          => Str(result.sql) = "SELECT a FROM t INNER JOIN u ON u.id = t.id WHERE x=? GROUP BY a HAVING count(*)>? ORDER BY a ASC LIMIT 5 OFFSET 10"

\* The full chain has been built.
C10_Witness ==
    /\ result.status = "ok"
    /\ FullChain(builders[1])
    /\ calls = 8

(***************************************************************************)
(* Calls on builders as their caller sees them: what each call was given,  *)
(* what it returned, and whether it raised.                                *)
(***************************************************************************)
\* Chaining methods of which offset raises when no LIMIT has been set.
Recorded_validating(b, op, args) ==
    [op |-> op, self |-> b, args |-> args,
     ret |-> IF op = "offset" /\ builders[b].limit_count = <<>> THEN None ELSE b,
     raised |-> (op = "offset" /\ builders[b].limit_count = <<>>), n |-> 0,
     cloned |-> IF trace.cloned # <<>> /\ trace.cloned[1].copy = b
                  THEN trace.cloned ELSE <<>>]

\* A chaining method returning: each ends with `return self`, or returns what
\* self.where or self.join returned, and none has a raise statement.
Recorded(b, op, args) ==
    [op |-> op, self |-> b, args |-> args, ret |-> b, raised |-> FALSE, n |-> 0,
     cloned |-> IF trace.cloned # <<>> /\ trace.cloned[1].copy = b
                  THEN trace.cloned ELSE <<>>]

\* What the chaining call op(args) on builder b leaves alone, and the
\* bookkeeping of the callers.
Chained(b, op, args) ==
    /\ calls' = calls + 1
    /\ result' = NoResult
    /\ trace' = Recorded(b, op, args)
    /\ UNCHANGED <<poolVars, clientVars>>

\* A build() that empties the builder's list of unioned sub-builders.
RecBuild_consuming(b) ==
    /\ ~(result.of = b /\ trace.n >= 2)
    /\ result' = [of |-> b] @@ build(builders, b, 0)
    /\ trace' = [trace EXCEPT !.n = IF result.of = b THEN @ + 1 ELSE 1]
    /\ builders' = [builders EXCEPT ![b].union_queries = <<>>]
    /\ UNCHANGED <<calls, poolVars, clientVars>>

\* b.build(); trace.n counts the build() calls made on b in a row.
RecBuild(b) ==
    /\ ~(result.of = b /\ trace.n >= 2)
    /\ result' = [of |-> b] @@ build(builders, b, 0)
    /\ trace' = [trace EXCEPT !.n = IF result.of = b THEN @ + 1 ELSE 1]
    /\ UNCHANGED <<builders, calls, poolVars, clientVars>>

(***************************************************************************)
(* Three builders that build the same text at first, unioned with one      *)
(* another and changed after they were unioned.                            *)
(***************************************************************************)
UnionIds == {1, 2, 3}

UnionInit ==
    /\ PoolInit
    /\ DefaultClient
    /\ builders = [b \in UnionIds |-> exists_in(<<"u">>, <<"z=", "?">>, <<3>>)]
    /\ calls = 0
    /\ result = NoResult
    /\ trace = NoCall

RecUnion(b) ==
    /\ calls < MaxCalls
    /\ \E other \in DOMAIN builders :
          /\ builders' = [builders EXCEPT ![b] = union(@, other)]
          /\ Chained(b, "union", <<other>>)

RecWhere(b) ==
    /\ calls < MaxCalls
    /\ builders' = [builders EXCEPT ![b] = where(@, <<"x=", "?">>, <<1>>)]
    /\ Chained(b, "where", <<<<"x=", "?">>, 1>>)

\* from_table("t") and from_table("").
RecFromTable(b) ==
    /\ calls < MaxCalls
    /\ \E table \in {<<"t">>, <<>>} :
          /\ builders' = [builders EXCEPT ![b] = from_table(@, table, <<>>)]
          /\ Chained(b, "from_table", <<table>>)

UnionNext ==
    \E b \in UnionIds :
       \/ RecUnion(b)
       \/ RecWhere(b)
       \/ RecFromTable(b)
       \/ RecBuild(b)

UnionSpec == UnionInit /\ [][UnionNext]_vars

\* The step is the call a.union(b).
UnionStep(a, b) ==
    /\ calls' = calls + 1
    /\ trace'.op = "union" /\ trace'.self = a /\ trace'.args = <<b>>

\* Text x is a prefix of text y.
IsPrefix(x, y) == Len(x) <= Len(y) /\ SubSeq(y, 1, Len(x)) = x

\* What a builds once a.union(b) is made: the text of a before the union, then
\* UNION, then the text of b, with the parameters of a followed by those of b.
UnionOfTexts(a, b) ==
    LET ra == build(builders, a, 0)
        rb == build(builders, b, 0)
        r  == build(builders', a, 0)
    IN  /\ r.status = "ok"
        /\ Str(r.sql) = Str(ra.sql) \o " UNION " \o Str(rb.sql)
        /\ r.params = ra.params \o rb.params

\* a.union(b) and b.union(a), each made on the builders as they are, build
\* different text.
OrderSensitive(a, b) ==
    LET r       == build(builders', a, 0)
        swapped == build([builders EXCEPT ![b] = union(@, a)], b, 0)
    IN  /\ swapped.status = "ok"
        /\ Str(r.sql) # Str(swapped.sql)

\* C11 (as stated): for buildable a and b, a built after a.union(b) gives the
\* text of a, UNION, the text of b, and the parameters of a then those of b; and
\* a.union(b) and b.union(a) differ textually when a and b build different text.
C11_UnionText ==
    [][\A a, b \in DOMAIN builders :
          (/\ UnionStep(a, b)
           /\ build(builders, a, 0).status = "ok"
           /\ build(builders, b, 0).status = "ok")
             => /\ UnionOfTexts(a, b)
                /\ Str(build(builders, a, 0).sql) # Str(build(builders, b, 0).sql)
                      => OrderSensitive(a, b)]_vars

\* C11 (amended): the same when b is not a and does not union a, directly or
\* through its own unions; and the two orders differ textually when moreover a
\* does not union b and neither text is a prefix of the other.
C11_UnionTextAmended ==
    [][\A a, b \in DOMAIN builders :
          (/\ UnionStep(a, b)
           /\ build(builders, a, 0).status = "ok"
           /\ build(builders, b, 0).status = "ok"
           /\ a \notin Reach(builders, b))
             => /\ UnionOfTexts(a, b)
                /\ (/\ b \notin Reach(builders, a)
                    /\ ~IsPrefix(build(builders, a, 0).sql, build(builders, b, 0).sql)
                    /\ ~IsPrefix(build(builders, b, 0).sql, build(builders, a, 0).sql))
                      => OrderSensitive(a, b)]_vars

\* a.union(b) was the last chaining call, on two builders that build different
\* text, and a has been built since.
C11_Witness ==
    /\ trace.op = "union"
    /\ trace.self = result.of
    /\ trace.args[1] # result.of
    /\ result.status = "ok"
    /\ builders[result.of].union_queries = trace.args
    /\ builders[trace.args[1]].where_clauses # builders[result.of].where_clauses
    /\ Len(result.params) = 3

\* The names of the chaining methods.
ChainingOps ==
    {"select", "select_distinct", "from_table", "join", "inner_join", "left_join",
     "right_join", "full_join", "cross_join", "where", "where_in", "where_not_in",
     "where_between", "where_like", "where_is_null", "where_is_not_null",
     "group_by", "having", "order_by", "limit", "offset", "union"}

\* What each unioned sub-builder of a builds now, on its own.
Branches(a) ==
    [i \in DOMAIN builders[a].union_queries |->
        build(builders, builders[a].union_queries[i], 0)]

\* The last build() failed if a sub-builder of a does not build now; otherwise
\* it returned the text of a followed by UNION and the present text of each
\* sub-builder, and the values of a followed by the present values of each.
ReflectsBranches(a) ==
    LET br == Branches(a)
    IN  IF \E i \in DOMAIN br : br[i].status # "ok"
          THEN result.status \notin {"ok", "none"}
          ELSE /\ result.status = "ok"
               /\ Str(result.sql) =
                    Str(JoinWith(sql_parts(builders[a]), <<" ">>)
                          \o Flatten([i \in DOMAIN br |-> <<" UNION ">> \o br[i].sql]))
               /\ result.params =
                    main_params(builders[a]) \o Flatten([i \in DOMAIN br |-> br[i].params])

\* C12: when the last chaining call before a.build() was made on a sub-builder
\* that a had already unioned, a.build() returns the text and the parameters
\* of the sub-builder as that call left it, and fails if the sub-builder no
\* longer builds.
C12_UnionByReference ==
    (/\ Built
     /\ trace.op \in ChainingOps
     /\ trace.self \in Range(builders[result.of].union_queries)
     /\ state_error(builders[result.of]) = "none")
       => ReflectsBranches(result.of)

\* b.where("x=?", 1) was called after a.union(b), and a.build() returned the
\* value 1 after those that a and b had before.
C12_Witness ==
    /\ result.status = "ok"
    /\ trace.op = "where"
    /\ trace.self # result.of
    /\ builders[result.of].union_queries = <<trace.self>>
    /\ result.params = <<3, 3, 1>>

\* C17: build() on a builder whose union graph has a cycle, every builder of
\* the graph having a selected column and a FROM target, fails with the
\* recursive-union error of the builder.
C17_CycleRaisesRecursiveUnionError ==
    (/\ Built
     /\ ~Acyclic(builders, result.of)
     /\ \A c \in Reach(builders, result.of) : HasSelectAndFrom(builders[c]))
       => result.status = "RecursiveUnionError"

(***************************************************************************)
(* The other chaining methods, as their caller sees them.                  *)
(***************************************************************************)
RecSelect(b) ==
    /\ calls < MaxCalls
    /\ builders' = [builders EXCEPT ![b] = select(@, <<<<"a">>>>)]
    /\ Chained(b, "select", <<<<"a">>>>)

RecSelectDistinct(b) ==
    /\ calls < MaxCalls
    /\ builders' = [builders EXCEPT ![b] = select_distinct(@, <<<<"b">>>>)]
    /\ Chained(b, "select_distinct", <<<<"b">>>>)

\* join(table, condition, join_type) with an empty and a non-empty condition.
RecJoin(b) ==
    /\ calls < MaxCalls
    /\ \E condition \in {<<"u.id = t.id">>, <<>>}, join_type \in {"INNER JOIN", "CROSS JOIN"} :
          /\ builders' = [builders EXCEPT ![b] = join(@, <<"u">>, condition, join_type, <<>>)]
          /\ Chained(b, "join", <<condition, join_type>>)

RecInnerJoin(b) ==
    /\ calls < MaxCalls
    /\ \E condition \in {<<"u.id = t.id">>, <<>>} :
          /\ builders' = [builders EXCEPT ![b] = inner_join(@, <<"u">>, condition, <<>>)]
          /\ Chained(b, "inner_join", <<condition>>)

RecLeftJoin(b) ==
    /\ calls < MaxCalls
    /\ builders' = [builders EXCEPT ![b] = left_join(@, <<"u">>, <<"u.id = t.id">>, <<<<"y">>>>)]
    /\ Chained(b, "left_join", <<<<"u.id = t.id">>>>)

RecRightJoin(b) ==
    /\ calls < MaxCalls
    /\ builders' = [builders EXCEPT ![b] = right_join(@, <<"u">>, <<"u.id = t.id">>, <<>>)]
    /\ Chained(b, "right_join", <<<<"u.id = t.id">>>>)

RecFullJoin(b) ==
    /\ calls < MaxCalls
    /\ builders' = [builders EXCEPT ![b] = full_join(@, <<"u">>, <<"u.id = t.id">>, <<>>)]
    /\ Chained(b, "full_join", <<<<"u.id = t.id">>>>)

RecCrossJoin(b) ==
    /\ calls < MaxCalls
    /\ builders' = [builders EXCEPT ![b] = cross_join(@, <<"w">>, <<>>)]
    /\ Chained(b, "cross_join", <<>>)

\* where_in("k", values) with no value, one value and several.
RecWhereIn(b) ==
    /\ calls < MaxCalls
    /\ \E values \in {<<>>, <<2>>, <<1, 2>>, <<3, 1, 2>>} :
          /\ builders' = [builders EXCEPT ![b] = where_in(@, <<"k">>, values)]
          /\ Chained(b, "where_in", values)

RecWhereNotIn(b) ==
    /\ calls < MaxCalls
    /\ \E values \in {<<>>, <<1, 2>>} :
          /\ builders' = [builders EXCEPT ![b] = where_not_in(@, <<"k">>, values)]
          /\ Chained(b, "where_not_in", values)

RecWhereBetween(b) ==
    /\ calls < MaxCalls
    /\ builders' = [builders EXCEPT ![b] = where_between(@, <<"n">>, 1, 3)]
    /\ Chained(b, "where_between", <<1, 3>>)

RecWhereLike(b) ==
    /\ calls < MaxCalls
    /\ builders' = [builders EXCEPT ![b] = where_like(@, <<"s">>, 2)]
    /\ Chained(b, "where_like", <<2>>)

RecWhereIsNull(b) ==
    /\ calls < MaxCalls
    /\ builders' = [builders EXCEPT ![b] = where_is_null(@, <<"s">>)]
    /\ Chained(b, "where_is_null", <<>>)

RecWhereIsNotNull(b) ==
    /\ calls < MaxCalls
    /\ builders' = [builders EXCEPT ![b] = where_is_not_null(@, <<"s">>)]
    /\ Chained(b, "where_is_not_null", <<>>)

RecGroupBy(b) ==
    /\ calls < MaxCalls
    /\ builders' = [builders EXCEPT ![b] = group_by(@, <<<<"a">>>>)]
    /\ Chained(b, "group_by", <<<<"a">>>>)

RecHaving(b) ==
    /\ calls < MaxCalls
    /\ builders' = [builders EXCEPT ![b] = having(@, <<"count(a)>", "?">>, <<2>>)]
    /\ Chained(b, "having", <<2>>)

RecOrderBy(b) ==
    /\ calls < MaxCalls
    /\ builders' = [builders EXCEPT ![b] = order_by(@, <<"a">>, "DESC")]
    /\ Chained(b, "order_by", <<"DESC">>)

RecLimit(b) ==
    /\ calls < MaxCalls
    /\ builders' = [builders EXCEPT ![b] = limit(@, 5)]
    /\ Chained(b, "limit", <<5>>)

RecOffset(b) ==
    /\ calls < MaxCalls
    /\ builders' = [builders EXCEPT ![b] = offset(@, 10)]
    /\ Chained(b, "offset", <<10>>)

(***************************************************************************)
(* clone(): a builder is cloned and chaining calls are made on the clone.  *)
(***************************************************************************)
\* A builder with every kind of clause, unioned with builder 2.
FullBuilder ==
    union(offset(limit(order_by(having(group_by(where(inner_join(
        select_from(<<"t">>, <<<<"a">>>>),
        <<"u">>, <<"u.id = t.id">>, <<>>),
        <<"x=", "?">>, <<1>>), <<<<"a">>>>), <<"count(a)>", "?">>, <<2>>),
        <<"a">>, "ASC"), 5), 10), 2)

\* Builder 1 is the builder cloned: empty, simple, full, or unioned with itself.
CloneInit ==
    /\ PoolInit
    /\ DefaultClient
    /\ \E q \in {EmptyBuilder, exists_in(<<"u">>, <<"z=", "?">>, <<3>>), FullBuilder,
                 union(select_from(<<"t">>, <<<<"a">>>>), 1)} :
          builders = [b \in UnionIds |->
                        IF b = 1 THEN q ELSE exists_in(<<"u">>, <<"z=", "?">>, <<3>>)]
    /\ calls = 0
    /\ result = NoResult
    /\ trace = NoCall

\* No builder holds a reference to c: its id can name a new object.
Unreferenced(c) == \A b \in DOMAIN builders : b # c => c \notin Range(builders[b].union_queries)

\* c = b.clone(); trace.cloned keeps what b built when it was cloned.
RecClone(b) ==
    /\ calls < MaxCalls
    /\ \E c \in UnionIds :
          /\ c # b
          /\ Unreferenced(c)
          /\ builders' = [builders EXCEPT ![c] = clone(builders[b])]
          /\ trace' = [op |-> "clone", self |-> b, args |-> <<>>, ret |-> c,
                       raised |-> FALSE, n |-> 0,
                       cloned |-> <<[copy |-> c, of |-> b, out |-> build(builders, b, 0)]>>]
    /\ calls' = calls + 1
    /\ result' = NoResult
    /\ UNCHANGED <<poolVars, clientVars>>

\* b is the clone last made.
OnClone(b) == trace.cloned # <<>> /\ trace.cloned[1].copy = b

CloneNext ==
    \E b \in UnionIds :
       \/ RecClone(b)
       \/ OnClone(b) /\ RecSelect(b)
       \/ OnClone(b) /\ RecFromTable(b)
       \/ OnClone(b) /\ RecInnerJoin(b)
       \/ OnClone(b) /\ RecWhere(b)
       \/ OnClone(b) /\ RecGroupBy(b)
       \/ OnClone(b) /\ RecHaving(b)
       \/ OnClone(b) /\ RecOrderBy(b)
       \/ OnClone(b) /\ RecLimit(b)
       \/ OnClone(b) /\ RecOffset(b)
       \/ OnClone(b) /\ RecUnion(b)
       \/ RecBuild(b)

CloneSpec == CloneInit /\ [][CloneNext]_vars

\* The last build() returned or raised what out records.
ResultIs(out) ==
    /\ result.status = out.status
    /\ result.message = out.message
    /\ result.sql = out.sql
    /\ result.params = out.params

CallInit ==
    /\ PoolInit
    /\ DefaultClient
    /\ \E q \in InitialBuilders :
          builders = [b \in UnionIds |->
                        IF b = 1 THEN q ELSE exists_in(<<"u">>, <<"z=", "?">>, <<3>>)]
    /\ calls = 0
    /\ result = NoResult
    /\ trace = NoCall

CallNext ==
    \E b \in {1} :
       \/ RecSelect(b)
       \/ RecSelectDistinct(b)
       \/ RecFromTable(b)
       \/ RecJoin(b)
       \/ RecInnerJoin(b)
       \/ RecLeftJoin(b)
       \/ RecRightJoin(b)
       \/ RecFullJoin(b)
       \/ RecCrossJoin(b)
       \/ RecWhere(b)
       \/ RecWhereIn(b)
       \/ RecWhereNotIn(b)
       \/ RecWhereBetween(b)
       \/ RecWhereLike(b)
       \/ RecWhereIsNull(b)
       \/ RecWhereIsNotNull(b)
       \/ RecGroupBy(b)
       \/ RecHaving(b)
       \/ RecOrderBy(b)
       \/ RecLimit(b)
       \/ RecOffset(b)
       \/ RecUnion(b)
       \/ RecBuild(b)

CallSpec == CallInit /\ [][CallNext]_vars

\* The step is a call of the chaining method op.
CallStep(op) == calls' = calls + 1 /\ trace'.op = op

\* The text where_in("k", values) gives its predicate, by the number of values.
InText(n) ==
    CASE n = 0 -> "1 = 0"
      [] n = 1 -> "k IN (?)"
      [] n = 2 -> "k IN (?, ?)"
      [] n = 3 -> "k IN (?, ?, ?)"

\* C15: where_in(column, values) appends exactly one WHERE predicate and changes
\* nothing else; with no values its text is `1 = 0` and it carries no value;
\* with n values its text is `column IN (?, ..., ?)` with n placeholders, and it
\* carries the n values in order.
C15_WhereIn ==
    [][CallStep("where_in") =>
          LET old    == builders[trace'.self]
              new    == builders'[trace'.self]
              values == trace'.args
              w      == new.where_clauses[Len(new.where_clauses)]
          IN  /\ new.where_clauses = Append(old.where_clauses, w)
              /\ [new EXCEPT !.where_clauses = old.where_clauses] = old
              /\ Str(w.condition) = InText(Len(values))
              /\ CountPlaceholders(w.condition) = Len(values)
              /\ w.params = values]_vars

\* where_in("k", []) was called on a builder that had a predicate, and build()
\* returned the text with `1 = 0` and the one value of the other predicate.
C15_Witness ==
    /\ trace.op = "where_in"
    /\ trace.args = <<>>
    /\ result.status = "ok"
    /\ Str(result.sql) = "SELECT 1 FROM u WHERE z=? AND 1 = 0"
    /\ result.params = <<3>>

\* C16: where_not_in(column, values) with no values leaves the builder as it
\* was, so that build() gives the same WHERE clause and the same parameters
\* as without the call.
C16_WhereNotInEmpty ==
    [][(CallStep("where_not_in") /\ trace'.args = <<>>) =>
          /\ builders' = builders
          /\ build(builders', trace'.self, 0) = build(builders, trace'.self, 0)]_vars

\* where_not_in("k", []) was called on a builder that had a predicate, and the
\* builder was built.
C16_Witness ==
    /\ trace.op = "where_not_in"
    /\ trace.args = <<>>
    /\ result.status = "ok"
    /\ Str(result.sql) = "SELECT 1 FROM u WHERE z=?"
    /\ result.params = <<3>>

EmitsEmptyOn(text) ==
    \E i \in DOMAIN text : text[i] = " ON " /\ (i = Len(text) \/ text[i + 1] = " ")

\* C19: a join held by a builder has an empty condition only if it is a CROSS
\* join, and build() emits no join with an empty ON condition.
C19_EmptyConditionOnlyForCross ==
    /\ \A b \in DOMAIN builders : \A i \in DOMAIN builders[b].joins :
          builders[b].joins[i].condition = <<>> => builders[b].joins[i].join_type = "CROSS JOIN"
    /\ result.status = "ok" => ~EmitsEmptyOn(result.sql)

(***************************************************************************)
(* ConnectionManager.health_check                                          *)
(*                                                                         *)
(* health[t] is "none" before any call, "call" from the entry of           *)
(* health_check to the end of the with block, "leaving" while the scoped   *)
(* acquisition releases the connection, and then what the call gave its    *)
(* caller: "true", "false", or "raised" for an exception.                  *)
(***************************************************************************)
\* A health_check that lets the failure of its block reach the caller.
health_result_propagating(kind) == IF kind = "return" THEN "true" ELSE "raised"

\* Lines 254-260: the block ends with `return True`; an exception raised in the
\* with statement is caught by `except Exception` and turned into False.
health_result(kind) == IF kind = "return" THEN "true" ELSE "false"

\* Lines 254-255: health_check enters `with self.get_connection_context()`.
HealthCheck(t) ==
    /\ UNCHANGED offPool
    /\ pc[t] = "idle"
    /\ get_connection(t, TRUE)
    /\ health' = [health EXCEPT ![t] = "call"]

\* get_connection creates the connection, or fails to: ConnectionError leaves
\* the with statement and is caught.
HealthCreate(t) ==
    /\ UNCHANGED offPool
    /\ pc[t] = "gc_create"
    /\ health[t] = "call"
    /\ \E ok \in BOOLEAN :
          /\ create_under_lock(t, ok)
          /\ health' = [health EXCEPT ![t] = IF ok THEN "call" ELSE health_result("raise")]

\* Lines 256-257: conn.execute("SELECT 1"); return True.  The statement
\* raises sqlite3.Error on a connection that is not open.
HealthStatement(t) ==
    /\ UNCHANGED offPool
    /\ pc[t] = "block"
    /\ health[t] = "call"
    /\ leave_block(t, IF connState[conn[t]] = "open" THEN "return" ELSE "raise")
    /\ health' = [health EXCEPT ![t] = "leaving"]

\* The finally clause of the scoped acquisition ends and health_check returns.
HealthReturn(t) ==
    /\ UNCHANGED offPool
    /\ health[t] = "leaving"
    /\ pc[t] \in {"rc_pool", "rc_dec"}
    /\ IF pc[t] = "rc_pool" THEN pool_or_close(t) ELSE drop_invalid(t)
    /\ health' = [health EXCEPT ![t] = health_result(ctxLog[t][2])]

HealthNext ==
    \/ PoolNext
    \/ \E t \in Threads :
          \/ HealthCheck(t)
          \/ HealthCreate(t)
          \/ HealthStatement(t)
          \/ HealthReturn(t)

HealthSpec == PoolSpecInit /\ [][HealthNext]_vars

\* health_check of thread t returns at this step.
HealthReturns(t) ==
    /\ health[t] \in {"call", "leaving"}
    /\ health'[t] \notin {"call", "leaving"}

\* C20: health_check returns true or false and never raises: true when the
\* acquisition and the statement succeeded, false when either failed; and when
\* it returns, the connection it acquired has been released: it is idle or
\* closed, and checked out by nobody.
C20_HealthCheckBoolean ==
    [][\A t \in Threads :
          HealthReturns(t) =>
             /\ health'[t] \in {"true", "false"}
             /\ health'[t] = "true" <=>
                   (health[t] = "leaving" /\ ctxLog[t] = <<"acquire", "return", "release">>)
             /\ health'[t] = "false" <=>
                   \/ health[t] = "call" /\ err'[t] = "ConnectionError"
                   \/ health[t] = "leaving" /\ ctxLog[t] = <<"acquire", "raise", "release">>
             /\ pc'[t] = "idle" /\ conn'[t] = None
             /\ health[t] = "leaving" =>
                   /\ conn[t] \notin CheckedOut'
                   /\ conn[t] \in Range(connections') \/ connState'[conn[t]] = "closed"]_vars

\* A health_check returned false because its statement failed, and the
\* connection it had acquired is closed and out of the pool.
C20_Witness ==
    \E t \in Threads :
       /\ health[t] = "false"
       /\ err[t] = "none"
       /\ pc[t] = "idle"
       /\ invalid # {}
       /\ invalid \cap Range(connections) = {}

(***************************************************************************)
(* SQLClient.__init__ and the bound of its pool                            *)
(***************************************************************************)
\* A client constructed with any of the values a caller can configure.
ConstructInit ==
    /\ PoolInit
    /\ NoBuilders
    /\ Database({})
    /\ \E m \in ConfigValues : SQLClient_init(m)

\* The threads of the program use the pool of the constructed client.
ConstructSpec == ConstructInit /\ [][PoolNext]_vars

\* C21: the bound that get_connection and return_connection compare against
\* (max_connections, the value of self._max_connections) is the max_connections
\* the client was constructed with, whatever value was configured.
C21_BoundIsConfigured == max_connections = config

(***************************************************************************)
(* SQLClient: operations (sqll/client.py)                                  *)
(*                                                                         *)
(* cop[t] is the client operation of thread t: its name and arguments, and *)
(* its stage: "none" when no operation is running (outcome then tells how  *)
(* the last one ended), "call" from the entry of the operation to the end  *)
(* of its statement, "leaving" while the scoped acquisition releases the   *)
(* connection.  txn[t] is the transaction() block of thread t: "enter"     *)
(* while its connection is being created, "open" while the block runs,     *)
(* "exit" while its connection is being released.                          *)
(***************************************************************************)
\* The threads that call the client.
Callers == 1..NumCallers

\* A dictionary argument: empty, or {"username": r}.
Dicts == {<<>>} \cup {<<r>> : r \in Rows}

\* What a statement does to the table: insert a row, delete a row, change a
\* row into another, read, or nothing at all because the engine rejects it
\* (a syntax error, a table that does not exist).
Statements ==
    [kind : {"insert", "delete"}, row : Rows, to : {""}]
       \cup [kind : {"update"}, row : Rows, to : Rows]
       \cup [kind : {"read", "bad"}, row : {""}, to : {""}]

ClientOps == {"execute", "select", "insert", "update", "delete"}

\* The arguments of a call: whether the table named exists, the data and where
\* dictionaries, and for execute the statement its sql text stands for.
Args(op) ==
    IF op = "execute"
      THEN {[NoArgs EXCEPT !.sql = s] : s \in Statements}
      ELSE [table : BOOLEAN,
            data  : IF op \in {"insert", "update"} THEN Dicts ELSE {<<>>},
            where : IF op \in {"update", "delete"} THEN Dicts ELSE {<<>>},
            sql   : {NoStatement}]

\* An update that checks its data dictionary only.
raise_validation_error_data_only(op, a) ==
    \/ op = "insert" /\ a.data = <<>>
    \/ op = "update" /\ a.data = <<>>
    \/ op = "delete" /\ a.where = <<>>

\* insert lines 331-332, update lines 402-405, delete lines 451-452: the
\* checks `if not data` and `if not where` that raise ValidationError.
raise_validation_error(op, a) ==
    \/ op = "insert" /\ a.data = <<>>
    \/ op = "update" /\ (a.data = <<>> \/ a.where = <<>>)
    \/ op = "delete" /\ a.where = <<>>

\* The statement an operation hands to conn.execute: execute passes its sql on;
\* the others write INSERT INTO, UPDATE .. SET .. WHERE, DELETE FROM .. WHERE, or
\* build a SELECT, for the table they were given.
StatementOf(op, a) ==
    CASE op = "execute" -> a.sql
      [] ~a.table       -> [kind |-> "bad", row |-> "", to |-> ""]
      [] op = "insert"  -> [kind |-> "insert", row |-> a.data[1], to |-> ""]
      [] op = "update"  -> [kind |-> "update", row |-> a.where[1], to |-> a.data[1]]
      [] op = "delete"  -> [kind |-> "delete", row |-> a.where[1], to |-> ""]
      [] OTHER          -> [kind |-> "read", row |-> "", to |-> ""]

\* The content of the table after statement s ran on content d.
Apply(d, s) ==
    CASE s.kind = "insert" -> d \cup {s.row}
      [] s.kind = "delete" -> d \ {s.row}
      [] s.kind = "update" -> IF s.row \in d THEN (d \ {s.row}) \cup {s.to} ELSE d
      [] OTHER             -> d

RECURSIVE ApplyAll(_, _)
ApplyAll(d, ss) == IF ss = <<>> THEN d ELSE ApplyAll(Apply(d, Head(ss)), Tail(ss))

\* conn.execute(s) on handle h raises sqlite3.Error: the connection is closed,
\* the engine rejects the statement, or a UNIQUE constraint fails.
ExecuteRaises(h, s) ==
    LET d == ApplyAll(db, pending[h]) IN
       \/ connState[h] # "open"
       \/ s.kind = "bad"
       \/ s.kind = "insert" /\ s.row \in d
       \/ s.kind = "update" /\ s.row \in d /\ s.to \in d /\ s.to # s.row

\* conn.commit() on h, after the statements ss ran on it in this step: its
\* uncommitted writes become the content of the database.
commit(h, ss) ==
    /\ db' = ApplyAll(db, pending[h] \o ss)
    /\ pending' = [pending EXCEPT ![h] = <<>>]

\* conn.rollback() on h: its uncommitted writes are dropped.
rollback(h) ==
    /\ pending' = [pending EXCEPT ![h] = <<>>]
    /\ UNCHANGED db

\* A step of thread t changes the database to d: every other thread's open
\* transaction block has no longer run alone.
NotAlone(t, d) ==
    [u \in Threads |->
        IF u # t /\ d # db /\ txn[u].stage \in {"open", "exit"}
          THEN [txn[u] EXCEPT !.alone = FALSE]
          ELSE txn[u]]

\* Thread t may start a client operation: it is in none, and in no pool call.
Ready(t) ==
    /\ cop[t].stage = "none"
    /\ txn[t].stage \in {"none", "open"}
    /\ pc[t] = "idle"

\* insert 331-332, update 402-405, delete 451-452: the operation raises
\* ValidationError before its try block, and so before any acquisition.
ClientInvalid(t) ==
    /\ Ready(t)
    /\ \E op \in ClientOps : \E a \in Args(op) :
          /\ raise_validation_error(op, a)
          /\ cop' = [cop EXCEPT ![t] =
                        [op |-> op, args |-> a, stage |-> "none",
                         outcome |-> "ValidationError"]]
    /\ UNCHANGED <<poolVars, qbVars, config, db, pending, txn>>

\* execute 114, fetchall 216 (select), insert 341, update 430, delete 471: the
\* operation enters `with get_connection_context() as conn`.
ClientCall(t) ==
    /\ Ready(t)
    /\ \E op \in ClientOps : \E a \in Args(op) :
          /\ ~raise_validation_error(op, a)
          /\ cop' = [cop EXCEPT ![t] =
                        [op |-> op, args |-> a, stage |-> "call", outcome |-> "none"]]
    /\ get_connection(t, TRUE)
    /\ UNCHANGED <<qbVars, health, partly, stale, waiting, config, db, pending, txn>>

\* How a failure to acquire reaches the caller of op: execute catches
\* Exception and raises QueryError; the other operations catch sqlite3.Error
\* only, and ConnectionError passes through them.
AcquireFailure(op) == IF op = "execute" THEN "QueryError" ELSE "ConnectionError"

\* get_connection creates the connection of the operation, or fails to.
ClientCreate(t) ==
    /\ cop[t].stage = "call"
    /\ pc[t] = "gc_create"
    /\ \E ok \in BOOLEAN :
          /\ create_under_lock(t, ok)
          /\ cop' = [cop EXCEPT ![t] =
                        IF ok THEN @
                              ELSE [op |-> @.op, args |-> NoArgs, stage |-> "none",
                                    outcome |-> AcquireFailure(@.op)]]
    /\ UNCHANGED <<qbVars, health, partly, stale, waiting, config, db, pending, txn>>

\* The body of the with block: conn.execute(sql, params); conn.commit(); return.
\* When the statement raises, the except clause of get_connection_context
\* rolls conn back and re-raises; in both cases its finally clause starts the
\* release of conn.
ClientStatement(t) ==
    /\ cop[t].stage = "call"
    /\ pc[t] = "block"
    /\ LET h == conn[t]
           s == StatementOf(cop[t].op, cop[t].args)
       IN  IF ExecuteRaises(h, s)
             THEN /\ rollback(h)
                  /\ leave_block(t, "raise")
                  /\ UNCHANGED txn
             ELSE /\ commit(h, <<s>>)
                  /\ leave_block(t, "return")
                  /\ txn' = NotAlone(t, db')
    /\ cop' = [cop EXCEPT ![t].stage = "leaving"]
    /\ UNCHANGED <<qbVars, health, partly, stale, waiting, config>>

\* An operation that lets the sqlite3.Error of its statement pass through.
StatementOutcome_passthrough(kind) == IF kind = "raise" THEN "sqlite3.Error" ELSE "ok"

\* How the end of the with block reaches the caller: the value of the
\* operation, or QueryError raised by the except clause for sqlite3.Error.
StatementOutcome(kind) == IF kind = "raise" THEN "QueryError" ELSE "ok"

\* return_connection ends, and the operation returns or raises to its caller.
ClientReturn(t) ==
    /\ cop[t].stage = "leaving"
    /\ pc[t] \in {"rc_pool", "rc_dec"}
    /\ IF pc[t] = "rc_pool" THEN pool_or_close(t) ELSE drop_invalid(t)
    /\ cop' = [cop EXCEPT ![t] =
                  [op |-> @.op, args |-> NoArgs, stage |-> "none",
                   outcome |-> StatementOutcome(ctxLog[t][2])]]
    /\ UNCHANGED <<qbVars, health, partly, stale, waiting, config, db, pending, txn>>

(***************************************************************************)
(* SQLClient.transaction                                                   *)
(***************************************************************************)
\* The connection that transaction() of thread t holds.
TxnConn(t) == CHOOSE h \in held[t] : TRUE

\* Lines 491-493: conn = None; conn = self.connection_manager.get_connection().
\* txn[t].log lists the calls transaction() has made on its connection.
TxnEnter(t) ==
    /\ Ready(t)
    /\ txn[t].stage = "none"
    /\ get_connection(t, FALSE)
    /\ txn' = [txn EXCEPT ![t] =
                  IF pc'[t] = "gc_create"
                    THEN [NoTxn EXCEPT !.stage = "enter", !.before = db]
                    ELSE [NoTxn EXCEPT !.stage = "open", !.before = db,
                                       !.log = <<"acquire">>]]
    /\ UNCHANGED <<qbVars, health, partly, stale, waiting, config, db, pending, cop>>

\* get_connection creates the connection, and the block starts at `yield`; or
\* it raises ConnectionError, which the except clause re-raises (conn is None).
TxnCreate(t) ==
    /\ txn[t].stage = "enter"
    /\ pc[t] = "gc_create"
    /\ \E ok \in BOOLEAN :
          /\ create_under_lock(t, ok)
          /\ txn' = [txn EXCEPT ![t] =
                        IF ok THEN [NoTxn EXCEPT !.stage = "open", !.before = db,
                                                 !.log = <<"acquire">>]
                              ELSE [NoTxn EXCEPT !.outcome = "ConnectionError"]]
    /\ UNCHANGED <<qbVars, health, partly, stale, waiting, config, db, pending, cop>>

\* The ways a block ends: normally with conn.commit() returning, normally with
\* conn.commit() raising, or with an exception raised in the block.
LeaveKinds == {"normal", "commit_raises", "raise"}

\* Lines 495-505 without the rollback of the except clause.
TxnLeave_norollback(t) ==
    /\ Ready(t)
    /\ txn[t].stage = "open"
    /\ \E kind \in LeaveKinds :
          LET h == TxnConn(t) IN
             /\ IF kind = "normal"
                  THEN /\ commit(h, <<>>)
                       /\ txn' = [NotAlone(t, db') EXCEPT
                                     ![t].stage = "exit",
                                     ![t].outcome = "committed",
                                     ![t].log = @ \o <<"commit", "release">>]
                  ELSE /\ UNCHANGED <<db, pending>>
                       /\ txn' = [txn EXCEPT
                                     ![t].stage = "exit",
                                     ![t].outcome = IF kind = "raise" THEN "failed"
                                                    ELSE "commit_failed",
                                     ![t].log = @ \o (IF kind = "raise"
                                                        THEN <<"release">>
                                                        ELSE <<"commit", "release">>)]
             /\ held' = [held EXCEPT ![t] = @ \ {h}]
             /\ return_connection(t, h)
    /\ UNCHANGED <<inCtx, ctxLog>>
    /\ UNCHANGED <<qbVars, health, partly, stale, waiting, config, cop>>

\* Lines 495-505: the block ends normally and conn.commit() runs; if the block
\* or conn.commit() raises, conn.rollback() runs and the exception is
\* re-raised; the finally clause starts return_connection(conn).
TxnLeave(t) ==
    /\ Ready(t)
    /\ txn[t].stage = "open"
    /\ \E kind \in LeaveKinds :
          LET h == TxnConn(t) IN
             /\ IF kind = "normal"
                  THEN /\ commit(h, <<>>)
                       /\ txn' = [NotAlone(t, db') EXCEPT
                                     ![t].stage = "exit",
                                     ![t].outcome = "committed",
                                     ![t].log = @ \o <<"commit", "release">>]
                  ELSE /\ rollback(h)
                       /\ txn' = [txn EXCEPT
                                     ![t].stage = "exit",
                                     ![t].outcome = IF kind = "raise" THEN "failed"
                                                    ELSE "commit_failed",
                                     ![t].log = @ \o (IF kind = "raise"
                                                        THEN <<"rollback", "release">>
                                                        ELSE <<"commit", "rollback",
                                                               "release">>)]
             /\ held' = [held EXCEPT ![t] = @ \ {h}]
             /\ return_connection(t, h)
    /\ UNCHANGED <<inCtx, ctxLog>>
    /\ UNCHANGED <<qbVars, health, partly, stale, waiting, config, cop>>

\* return_connection ends, and transaction() returns or re-raises.
TxnReturn(t) ==
    /\ txn[t].stage = "exit"
    /\ pc[t] \in {"rc_pool", "rc_dec"}
    /\ IF pc[t] = "rc_pool" THEN pool_or_close(t) ELSE drop_invalid(t)
    /\ txn' = [txn EXCEPT ![t].stage = "none"]
    /\ UNCHANGED <<qbVars, health, partly, stale, waiting, config, db, pending, cop>>

ClientNext ==
    \E t \in Callers :
       \/ ClientInvalid(t)
       \/ ClientCall(t)
       \/ ClientCreate(t)
       \/ ClientStatement(t)
       \/ ClientReturn(t)

\* A client with the default configuration, on a database holding any rows.
ClientInit ==
    /\ PoolInit
    /\ NoBuilders
    /\ SQLClient_init(max_connections)
    /\ \E d \in SUBSET Rows : Database(d)

\* The callers make client operations, none of them inside a transaction().
ClientSpec == ClientInit /\ [][ClientNext]_vars

TxnNext ==
    \/ ClientNext
    \/ \E t \in Callers :
          \/ TxnEnter(t)
          \/ TxnCreate(t)
          \/ TxnLeave(t)
          \/ TxnReturn(t)

\* The callers make client operations, inside transaction() blocks and
\* outside them.
TxnSpec == ClientInit /\ [][TxnNext]_vars

\* transaction() of thread t re-raises the failure of its block at this step.
FailedBlockEnds(t) ==
    /\ txn[t].stage = "exit"
    /\ txn[t].outcome = "failed"
    /\ txn'[t].stage = "none"

\* C22: when the block of a transaction() fails, the database holds afterwards
\* what it held when the block started: no write that a client operation made
\* inside the block is visible (no other thread having written meanwhile).
C22_FailedBlockLeavesNoWrite ==
    [][\A t \in Callers :
          (FailedBlockEnds(t) /\ txn[t].alone) => db' = txn[t].before]_vars

(***************************************************************************)
(* Properties of the client operations                                     *)
(***************************************************************************)
\* The operation of thread t ends at this step because its statement (or its
\* commit) raised sqlite3.Error on the connection it had acquired.
StatementFailureEnds(t) ==
    /\ cop[t].stage = "leaving"
    /\ ctxLog[t][2] = "raise"
    /\ cop'[t].stage = "none"

\* The operation of thread t ends at this step because the engine failed to
\* open the connection it was acquiring.
OpenFailureEnds(t) ==
    /\ cop[t].stage = "call"
    /\ pc[t] = "gc_create"
    /\ cop'[t].stage = "none"

\* After the step the connection h is out of every caller's hands: idle in the
\* pool or closed, and thread t holds nothing it did not hold before the call.
ReleasedBy(t, h) ==
    /\ h \notin CheckedOut'
    /\ h \in Range(connections') \/ connState'[h] = "closed"
    /\ Holds(t)' = held[t]

\* C23: an engine failure during a client operation (the statement fails, or
\* the connection cannot be opened) reaches the caller as QueryError, and when
\* it does the connection the operation acquired is back in the pool and
\* nothing stays checked out for the operation.
C23_EngineFailureIsQueryError ==
    [][\A t \in Callers :
          /\ StatementFailureEnds(t) =>
                cop'[t].outcome = "QueryError" /\ ReleasedBy(t, conn[t])
          /\ OpenFailureEnds(t) =>
                cop'[t].outcome = "QueryError" /\ CheckedOut' = CheckedOut]_vars

\* C23, amended: a statement failure reaches the caller as QueryError with the
\* connection released; a failure to open the connection reaches the caller
\* as QueryError from execute and as ConnectionError from select, insert,
\* update and delete, with nothing acquired and nothing checked out.
C23_EngineFailureAmended ==
    [][\A t \in Callers :
          /\ StatementFailureEnds(t) =>
                cop'[t].outcome = "QueryError" /\ ReleasedBy(t, conn[t])
          /\ OpenFailureEnds(t) =>
                /\ cop'[t].outcome =
                      IF cop[t].op = "execute" THEN "QueryError" ELSE "ConnectionError"
                /\ CheckedOut' = CheckedOut
                /\ connections' = connections
                /\ connection_count' = connection_count]_vars

\* An insert failed on a UNIQUE constraint: its caller got QueryError, and the
\* connection it used is idle in the pool.
C23_Witness ==
    \E t \in Callers :
       /\ cop[t].stage = "none"
       /\ cop[t].op = "insert"
       /\ cop[t].outcome = "QueryError"
       /\ connections # <<>>
       /\ Holds(t) = {}

\* Thread t calls a client operation at this step.
CallStarts(t) ==
    /\ cop[t].stage = "none"
    /\ cop'[t] # cop[t]

\* C24: insert with an empty data dictionary, update with an empty data or an
\* empty where dictionary, and delete with an empty where dictionary fail with
\* ValidationError before anything is acquired: the idle list, the total count,
\* the connections and the database are as they were.
C24_ValidationBeforeAcquire ==
    [][\A t \in Callers :
          LET op == cop'[t].op
              a  == cop'[t].args
          IN  (/\ CallStarts(t)
               /\ \/ op = "insert" /\ a.data = <<>>
                  \/ op = "update" /\ (a.data = <<>> \/ a.where = <<>>)
                  \/ op = "delete" /\ a.where = <<>>)
                 => /\ cop'[t].stage = "none"
                    /\ cop'[t].outcome = "ValidationError"
                    /\ UNCHANGED <<connections, connection_count, connState, lock,
                                   pc, conn, held, db, pending>>]_vars

\* An update with data and an empty where dictionary raised ValidationError
\* while the pool held an idle connection and the table a row.
C24_Witness ==
    \E t \in Callers :
       /\ cop[t].op = "update"
       /\ cop[t].args.data # <<>>
       /\ cop[t].args.where = <<>>
       /\ cop[t].outcome = "ValidationError"
       /\ connections # <<>>
       /\ db # {}

(***************************************************************************)
(* Properties of the lock and of connection creation                       *)
(***************************************************************************)
\* C25: self._lock is free whenever a thread is creating and configuring a
\* connection, so that no other thread's acquire or release waits for the
\* creation; and no thread holds it while the statements of its block run.
\* (The validation statement of return_connection runs in a step that does
\* not take the lock.)
C25_NoEngineWorkUnderLock ==
    \A t \in Threads :
       /\ pc[t] = "gc_create" => lock = None
       /\ pc[t] = "block" => lock # t

\* Lines 102-136, _configure_connection on the freshly opened handle h: when the
\* engine rejects one of the PRAGMA statements, the except clause for
\* sqlite3.Error logs a warning and returns, the later statements not having
\* run; create_connection goes on with the connection as it is.
configure_connection(h, accepted) ==
    partly' = IF accepted THEN partly ELSE partly \cup {h}

\* get_connection creates a connection of which the engine rejects a
\* configuration statement.
CreateConnectionPartly(t) ==
    /\ UNCHANGED <<qbVars, clientVars, stale, waiting>>
    /\ Plain(t)
    /\ pc[t] = "gc_create"
    /\ configure_connection(NewHandle, FALSE)
    /\ create_under_lock(t, TRUE)

ConfigureNext ==
    \/ PoolNext
    \/ \E t \in Threads : CreateConnectionPartly(t)

\* The threads use a pool whose engine may reject configuration statements.
ConfigureSpec == PoolSpecInit /\ [][ConfigureNext]_vars

\* The creation that thread t was in ends at this step, the engine having
\* failed to open the connection or having rejected a configuration statement.
CreationFails(t) ==
    /\ pc[t] = "gc_create"
    /\ pc'[t] # "gc_create"
    /\ connState' = connState \/ partly' # partly

\* C26: when the engine fails to open the connection, or rejects a
\* configuration statement on the freshly opened connection, get_connection
\* raises ConnectionError and hands nothing out: no caller ever holds a
\* connection that is only partly configured.
C26_NoPartlyConfigured ==
    [][\A t \in Threads :
          CreationFails(t) =>
             /\ err'[t] = "ConnectionError"
             /\ Holds(t)' = Holds(t)
             /\ partly' \cap CheckedOut' = {}]_vars

(***************************************************************************)
(* Properties of get_connection, return_connection and close_all           *)
(***************************************************************************)
\* Thread t calls get_connection at this step: the call hands it a connection
\* or goes on to create one.
AcquireStarts(t) ==
    /\ pc[t] = "idle"
    /\ pc'[t] = "gc_create" \/ Holds(t)' \ Holds(t) # {}

\* The creation that thread t was in ends at this step.
CreationEnds(t) ==
    /\ pc[t] = "gc_create"
    /\ pc'[t] # "gc_create"

\* The handles that the engine opens at this step.
Opened == {h \in Handles : connState[h] = "unborn" /\ connState'[h] = "open"}

\* C27: get_connection on a non-empty idle list hands out a connection of the
\* idle list and removes it, opens nothing and leaves the total count as it
\* is; on an empty idle list it goes on to create, and the creation opens one
\* connection, hands it out and adds exactly one to the count (or fails and
\* changes nothing).  No connection is opened at any other step.
C27_AcquireIdleElseCreate ==
    [][/\ \A t \in Threads :
             /\ AcquireStarts(t) =>
                   IF connections # <<>>
                     THEN /\ \E h \in Range(connections) :
                                /\ Holds(t)' = Holds(t) \cup {h}
                                /\ h \notin Range(connections')
                          /\ Len(connections') = Len(connections) - 1
                          /\ Range(connections') \subseteq Range(connections)
                          /\ Opened = {}
                          /\ connection_count' = connection_count
                     ELSE /\ pc'[t] = "gc_create"
                          /\ connections' = <<>>
                          /\ connection_count' = connection_count
             /\ CreationEnds(t) =>
                   /\ connections = <<>> /\ connections' = <<>>
                   /\ IF err'[t] = "none"
                        THEN /\ Cardinality(Opened) = 1
                             /\ Holds(t)' = Holds(t) \cup Opened
                             /\ connection_count' = connection_count + 1
                        ELSE /\ Opened = {}
                             /\ Holds(t)' = Holds(t)
                             /\ connection_count' = connection_count
       /\ Opened # {} => \E t \in Threads : CreationEnds(t) /\ connections = <<>>]_vars

\* A caller holds the connection that was idle when a later release found the
\* idle list full and closed its own: it was handed out from the idle list,
\* and the count is that of the one connection left.
C27_Witness ==
    \E t \in Threads : \E h, g \in Handles :
       /\ Holds(t) = {h}
       /\ connState[h] = "open"
       /\ connState[g] = "closed"
       /\ g \notin invalid \cup CheckedOut
       /\ connections = <<>>
       /\ connection_count = 1
       /\ outAtClose = {}

\* The release that thread t was in, of a connection that passed validation,
\* ends at this step.
ValidReleaseEnds(t) ==
    /\ pc[t] = "rc_pool"
    /\ pc'[t] # "rc_pool"

\* C28: the release of a connection that passed validation appends it to the
\* idle list and leaves the count as it is when the idle list holds fewer than
\* max_connections connections; otherwise it closes the connection, leaves the
\* idle list as it is and takes exactly one off the count.
C28_ReleasePoolsOrCloses ==
    [][\A t \in Threads :
          ValidReleaseEnds(t) =>
             IF Len(connections) < max_connections
               THEN /\ connections' = Append(connections, conn[t])
                    /\ connection_count' = connection_count
                    /\ connState' = connState
               ELSE /\ connections' = connections
                    /\ connState'[conn[t]] = "closed"
                    /\ \A h \in Handles \ {conn[t]} : connState'[h] = connState[h]
                    /\ connection_count' = connection_count - 1]_vars

\* The idle list is full, and a connection released on top of it was closed
\* and taken off the count.
C28_Witness ==
    \E g \in Handles :
       /\ Len(connections) = max_connections
       /\ connState[g] = "closed"
       /\ g \notin invalid \cup CheckedOut
       /\ connection_count = max_connections
       /\ \A t \in Threads : pc[t] = "idle"

\* close_all runs at this step: no thread moves, and the idle list, the count
\* or the record of what was checked out changes.
CloseAllRuns ==
    /\ pc' = pc
    /\ held' = held
    /\ \/ connections' # connections
       \/ connection_count' # connection_count
       \/ outAtClose' # outAtClose

\* C29: close_all closes every connection that is idle, leaves the idle list
\* empty and the count at zero, and touches no connection that is checked out:
\* each holder holds what it held, in the state it was in.
C29_CloseAllFrame ==
    [][CloseAllRuns =>
          /\ \A h \in Range(connections) : connState'[h] = "closed"
          /\ connections' = <<>>
          /\ connection_count' = 0
          /\ \A h \in Handles \ Range(connections) : connState'[h] = connState[h]
          /\ CheckedOut' = CheckedOut
          /\ \A t \in Threads : Holds(t)' = Holds(t) /\ conn'[t] = conn[t]]_vars

\* close_all has closed an idle connection while another was checked out, and
\* the holder's connection is still open.
C29_Witness ==
    \E h, g \in Handles :
       /\ h \in outAtClose \cap CheckedOut
       /\ connState[h] = "open"
       /\ connState[g] = "closed"
       /\ g \notin invalid \cup CheckedOut
       /\ connections = <<>>
       /\ connection_count = 0

(***************************************************************************)
(* QueryBuilder.from_table, called again                                   *)
(***************************************************************************)
\* The names of the tables and of the aliases given to from_table.
FromTables == {<<"t">>, <<"v">>}

\* The alias argument: None, the empty string, or a name.
FromAliases == {<<>>, <<<<>>>>, <<<<"p">>>>, <<<<"q">>>>}

\* b.from_table(table, alias)
RecFromTableAlias(b) ==
    /\ calls < MaxCalls
    /\ \E table \in FromTables : \E alias \in FromAliases :
          /\ builders' = [builders EXCEPT ![b] = from_table(@, table, alias)]
          /\ Chained(b, "from_table", <<table, alias>>)

\* select("a").from_table("t", "p").where("x=?", 1)
AliasedBuilder ==
    where(from_table(select(EmptyBuilder, <<<<"a">>>>), <<"t">>, <<<<"p">>>>),
          <<"x=", "?">>, <<1>>)

\* Builder 1 is new, or has a FROM target with an alias already.
FromInit ==
    /\ PoolInit
    /\ DefaultClient
    /\ \E q \in {EmptyBuilder, AliasedBuilder} :
          builders = [b \in UnionIds |->
                        IF b = 1 THEN q ELSE exists_in(<<"u">>, <<"z=", "?">>, <<3>>)]
    /\ calls = 0
    /\ result = NoResult
    /\ trace = NoCall

FromNext ==
    \E b \in {1} :
       \/ RecFromTableAlias(b)
       \/ RecSelect(b)
       \/ RecWhere(b)
       \/ RecBuild(b)

FromSpec == FromInit /\ [][FromNext]_vars

\* The FROM target that from(table, alias) names: the table, followed by the
\* alias when one is given.
FromTarget(table, alias) ==
    IF alias # <<>> /\ alias[1] # <<>> THEN table \o <<" ">> \o alias[1] ELSE table

FromNames == {"t", "v", "p", "q"}

\* The text sql has the FROM clause `FROM target`, and names no table and no
\* alias other than those of target.
UsesOnly(sql, target) ==
    /\ \E i \in DOMAIN sql :
          /\ sql[i] = "FROM "
          /\ i + Len(target) <= Len(sql)
          /\ SubSeq(sql, i + 1, i + Len(target)) = target
    /\ Range(sql) \cap FromNames = Range(target) \cap FromNames

\* build() is called at this step.
BuildStep == calls' = calls /\ trace'.n # trace.n

\* C30: from_table(table, alias) never fails, sets the FROM target of its
\* builder to the table and alias of this call, whatever target an earlier
\* call had set (a call without alias leaves no alias), and changes nothing
\* else; a build() that follows uses that table and alias only.
C30_FromLastWriteWins ==
    [][/\ CallStep("from_table") =>
             LET b == trace'.self
                 target == FromTarget(trace'.args[1], trace'.args[2])
             IN  /\ ~trace'.raised
                 /\ trace'.ret = b
                 /\ builders' = [builders EXCEPT ![b].from_table = <<target>>]
       /\ (BuildStep /\ trace.op = "from_table"
              /\ builders[trace.self].select_columns # <<>>) =>
             /\ result'.status = "ok"
             /\ UsesOnly(result'.sql, FromTarget(trace.args[1], trace.args[2]))]_vars

\* The builder that had the target `t p` was given the table v with no alias,
\* and built a statement that names neither t nor p.
C30_Witness ==
    /\ calls = 1
    /\ trace.op = "from_table"
    /\ trace.args = <<<<"v">>, <<>>>>
    /\ result.status = "ok"
    /\ "p" \notin Range(result.sql)
    /\ "t" \notin Range(result.sql)
    /\ "v" \in Range(result.sql)

(***************************************************************************)
(* QueryBuilder: the accumulating calls                                    *)
(***************************************************************************)
\* b.select(*columns), with one or two columns
AccSelect(b) ==
    /\ calls < MaxCalls
    /\ \E columns \in {<<<<"a">>>>, <<<<"b">>>>, <<<<"b">>, <<"a">>>>} :
          /\ builders' = [builders EXCEPT ![b] = select(@, columns)]
          /\ Chained(b, "select", columns)

\* b.join(table, condition, join_type)
AccJoin(b) ==
    /\ calls < MaxCalls
    /\ \E j \in {[table |-> <<"u">>, condition |-> <<"u.k = t.k">>, join_type |-> "INNER JOIN"],
                 [table |-> <<"w">>, condition |-> <<"w.k = t.k">>, join_type |-> "LEFT JOIN"]} :
          /\ builders' = [builders EXCEPT ![b] = join(@, j.table, j.condition, j.join_type, <<>>)]
          /\ Chained(b, "join", <<j @@ [alias |-> <<>>]>>)

\* b.where(condition, *params)
AccWhere(b) ==
    /\ calls < MaxCalls
    /\ \E p \in {[condition |-> <<"x=", "?">>, params |-> <<1>>],
                 [condition |-> <<"y=", "?">>, params |-> <<2>>]} :
          /\ builders' = [builders EXCEPT ![b] = where(@, p.condition, p.params)]
          /\ Chained(b, "where", <<p>>)

\* b.group_by(*columns)
AccGroupBy(b) ==
    /\ calls < MaxCalls
    /\ \E columns \in {<<<<"g">>>>, <<<<"h">>, <<"g">>>>} :
          /\ builders' = [builders EXCEPT ![b] = group_by(@, columns)]
          /\ Chained(b, "group_by", columns)

\* b.having(condition, *params)
AccHaving(b) ==
    /\ calls < MaxCalls
    /\ \E p \in {[condition |-> <<"count(*)>", "?">>, params |-> <<3>>],
                 [condition |-> <<"sum(n)>", "?">>, params |-> <<4>>]} :
          /\ builders' = [builders EXCEPT ![b] = having(@, p.condition, p.params)]
          /\ Chained(b, "having", <<p>>)

\* b.order_by(column, direction)
AccOrderBy(b) ==
    /\ calls < MaxCalls
    /\ \E o \in {[column |-> <<"o1">>, direction |-> "ASC"],
                 [column |-> <<"o2">>, direction |-> "DESC"]} :
          /\ builders' = [builders EXCEPT ![b] = order_by(@, o.column, o.direction)]
          /\ Chained(b, "order_by", <<o>>)

\* Builder 1 is new, or is select("c").from_table("t").
AccInit ==
    /\ PoolInit
    /\ DefaultClient
    /\ \E q \in {EmptyBuilder, select_from(<<"t">>, <<<<"c">>>>)} :
          builders = [b \in UnionIds |->
                        IF b = 1 THEN q ELSE exists_in(<<"u">>, <<"z=", "?">>, <<3>>)]
    /\ calls = 0
    /\ result = NoResult
    /\ trace = NoCall

AccNext ==
    \E b \in {1} :
       \/ AccSelect(b)
       \/ AccJoin(b)
       \/ AccWhere(b)
       \/ AccGroupBy(b)
       \/ AccHaving(b)
       \/ AccOrderBy(b)
       \/ RecBuild(b)

AccSpec == AccInit /\ [][AccNext]_vars

AccOps == {"select", "join", "where", "group_by", "having", "order_by"}

\* The builder q with the entries that the call op(args) adds put at the end
\* of the list that op accumulates, every earlier entry staying where it was.
WithAdded(q, op, args) ==
    CASE op = "select"   -> [q EXCEPT !.select_columns = @ \o args]
      [] op = "join"     -> [q EXCEPT !.joins = @ \o args]
      [] op = "where"    -> [q EXCEPT !.where_clauses = @ \o args]
      [] op = "group_by" -> [q EXCEPT !.group_by_columns = @ \o args]
      [] op = "having"   -> [q EXCEPT !.having_clauses = @ \o args]
      [] op = "order_by" -> [q EXCEPT !.order_by_columns = @ \o args]

\* The pieces of text that belong to the set names, in the order they have in text.
Proj(text, names) == SelectSeq(text, LAMBDA p : p \in names)

\* The first piece of each entry of a list of texts.
Firsts(texts) == [i \in DOMAIN texts |-> texts[i][1]]

\* C31: a call of select, join, where, group_by, having or order_by puts its
\* entries after those the builder already has in that list, removing and
\* moving none; and the text build() returns names the projection columns,
\* the joined tables, the WHERE predicates, the GROUP BY columns, the HAVING
\* predicates and the ORDER BY terms each in the order of that list, which is
\* the order of the calls.
C31_CallOrderPreserved ==
    [][/\ (calls' = calls + 1 /\ trace'.op \in AccOps) =>
             builders' = [builders EXCEPT ![trace'.self] = WithAdded(@, trace'.op, trace'.args)]
       /\ (BuildStep /\ result'.status = "ok") =>
             LET q == builders[result'.of]
                 sql == result'.sql
             IN  /\ Proj(sql, {"a", "b", "c"}) = Firsts(q.select_columns)
                 /\ Proj(sql, {"u", "w"}) = Firsts([i \in DOMAIN q.joins |-> q.joins[i].table])
                 /\ Proj(sql, {"x=", "y="}) = Firsts(Conditions(q.where_clauses))
                 /\ Proj(sql, {"g", "h"}) = Firsts(q.group_by_columns)
                 /\ Proj(sql, {"count(*)>", "sum(n)>"}) = Firsts(Conditions(q.having_clauses))
                 /\ Proj(sql, {"o1", "o2"})
                       = Firsts([i \in DOMAIN q.order_by_columns |-> q.order_by_columns[i].column])]_vars

\* select("c") was followed by select("b", "a") and by two where calls, and
\* the statement built lists c, b, a and then y= before x=.
C31_Witness ==
    /\ result.status = "ok"
    /\ Proj(result.sql, {"a", "b", "c"}) = <<"c", "b", "a">>
    /\ Proj(result.sql, {"x=", "y="}) = <<"y=", "x=">>

(***************************************************************************)
(* SQLClient.transaction: the calls on its own connection                  *)
(***************************************************************************)
\* The callers run transaction() blocks while the other threads call the pool
\* directly.
BlockNext ==
    \/ \E t \in Callers :
          \/ TxnEnter(t)
          \/ TxnCreate(t)
          \/ TxnLeave(t)
          \/ TxnReturn(t)
    \/ \E t \in Threads \ Callers :
          \/ GetConnection(t)
          \/ CreateConnection(t)
          \/ ReturnConnection(t)
          \/ PoolOrClose(t)
          \/ DropInvalid(t)
          \/ CloseAll(t)
          \/ BreakConnection(t)

BlockSpec == ClientInit /\ [][BlockNext]_vars

\* The block of thread t starts at this step: get_connection has returned.
TxnOpens(t) ==
    /\ txn[t].stage \in {"none", "enter"}
    /\ txn'[t].stage = "open"

\* The block of thread t ends at this step, normally or with an exception.
TxnLeaves(t) ==
    /\ txn[t].stage = "open"
    /\ txn'[t].stage = "exit"

\* transaction() of thread t returns or re-raises at this step.
TxnEnds(t) ==
    /\ txn[t].stage = "exit"
    /\ txn'[t].stage = "none"

\* The calls transaction() makes on its connection, for each way it can end.
CallsFor(outcome) ==
    CASE outcome = "committed" -> <<"acquire", "commit", "release">>
      [] outcome = "failed" -> <<"acquire", "rollback", "release">>
      [] outcome = "commit_failed" -> <<"acquire", "commit", "rollback", "release">>
      [] OTHER -> <<>>

\* C32: transaction() acquires one pooled connection on entry; when the block
\* ends normally it calls commit on that connection, when the block or the
\* commit fails it calls rollback on it and re-raises the failure; on every
\* exit path it hands that connection to return_connection exactly once, and
\* when transaction() ends the connection is idle in the pool or closed and
\* the caller holds nothing.
C32_TransactionCommitsOrRollsBack ==
    [][\A t \in Callers :
          /\ TxnOpens(t) =>
                /\ held[t] = {}
                /\ Cardinality(held'[t]) = 1
                /\ held'[t] \cap (CheckedOut \cup Range(connections')) = {}
                /\ txn'[t].log = <<"acquire">>
          /\ TxnLeaves(t) =>
                /\ txn'[t].outcome \in {"committed", "failed", "commit_failed"}
                /\ txn'[t].log = CallsFor(txn'[t].outcome)
                /\ held[t] = {conn'[t]}
                /\ held'[t] = {}
                /\ pending'[conn'[t]] = <<>>
          /\ TxnEnds(t) =>
                /\ txn'[t].log = txn[t].log
                /\ txn'[t].outcome = txn[t].outcome
                /\ conn[t] \notin CheckedOut'
                /\ conn[t] \in Range(connections') \/ connState'[conn[t]] = "closed"
                /\ Holds(t)' = {}]_vars

\* A transaction() whose commit failed has ended: it rolled back after the
\* commit, re-raised, and its connection is back in the idle list.
C32_Witness ==
    \E t \in Callers :
       /\ txn[t].stage = "none"
       /\ txn[t].outcome = "commit_failed"
       /\ txn[t].log = <<"acquire", "commit", "rollback", "release">>
       /\ connections # <<>>
       /\ held[t] = {}

\* The statement of the client operation of thread t runs at this step.
StatementRuns(t) ==
    /\ cop[t].stage = "call"
    /\ cop'[t].stage = "leaving"

\* C33: the statement of a client operation issued inside a transaction() block
\* runs on the connection that transaction() acquired, so that the commit or
\* rollback of the transaction governs it.
C33_StatementOnTxnConnection ==
    [][\A t \in Callers :
          (StatementRuns(t) /\ txn[t].stage = "open") =>
             /\ conn[t] = TxnConn(t)
             /\ pending'[TxnConn(t)] # <<>> \/ db' = db]_vars

\* C34: the total count of the pool is the number of idle connections plus the
\* number of checked-out connections; so it is never negative and never less
\* than the number of idle connections.
C34_CountIsIdlePlusCheckedOut ==
    /\ connection_count = Len(connections) + Cardinality(CheckedOut)
    /\ connection_count >= 0
    /\ connection_count >= Len(connections)

(***************************************************************************)
(* ConnectionManager.return_connection: a handle passed back twice         *)
(***************************************************************************)
\* A caller passes back a handle it holds and keeps its reference to it.
ReturnKeeping(t) ==
    /\ UNCHANGED <<qbVars, clientVars, partly, waiting>>
    /\ Plain(t)
    /\ pc[t] = "idle"
    /\ \E h \in held[t] :
          /\ held' = [held EXCEPT ![t] = @ \ {h}]
          /\ stale' = [stale EXCEPT ![t] = @ \cup {h}]
          /\ return_connection(t, h)
          /\ UNCHANGED <<inCtx, ctxLog>>

\* A caller passes back, once more, a handle it has already passed back:
\* return_connection(conn) runs lines 163-194 on it as on any other handle.
ReturnAgain(t) ==
    /\ UNCHANGED <<qbVars, clientVars, partly, waiting>>
    /\ Plain(t)
    /\ pc[t] = "idle"
    /\ \E h \in stale[t] \ held[t] :
          /\ stale' = [stale EXCEPT ![t] = @ \ {h}]
          /\ return_connection(t, h)
          /\ UNCHANGED <<held, inCtx, ctxLog>>

AgainNext ==
    \E t \in Threads :
       \/ GetConnection(t)
       \/ CreateConnection(t)
       \/ ReturnKeeping(t)
       \/ ReturnAgain(t)
       \/ PoolOrClose(t)
       \/ DropInvalid(t)

\* Callers that may pass a handle back a second time.
AgainSpec == PoolSpecInit /\ [][AgainNext]_vars

\* C35: the idle list never holds the same handle twice, also when a caller
\* passes the same handle back twice; and no handle is in the hands of two
\* callers at once.
C35_NoHandleTwice ==
    /\ \A i, j \in DOMAIN connections : i # j => connections[i] # connections[j]
    /\ \A t, u \in Threads : t # u => held[t] \cap held[u] = {}

\* The creation that thread t was in ends at this step without a connection:
\* the engine failed to open it.
CreationRaises(t) ==
    /\ CreationEnds(t)
    /\ Opened = {}

\* C36: when the creation of a connection fails inside get_connection, the call
\* raises ConnectionError, leaves the total count, the idle list and every
\* connection as they were, hands nothing out, and releases the pool lock; the
\* lock is never held by a thread that is not creating a connection, so later
\* calls find it free.
C36_FailedCreationChangesNothing ==
    /\ [][\A t \in Threads :
             CreationRaises(t) =>
                /\ err'[t] = "ConnectionError"
                /\ connection_count' = connection_count
                /\ connections' = connections
                /\ connState' = connState
                /\ Holds(t)' = Holds(t)
                /\ CheckedOut' = CheckedOut
                /\ lock = t
                /\ lock' = None]_vars
    /\ [](\A t \in Threads : lock = t => pc[t] = "gc_create")

\* Thread t got ConnectionError from a failed creation, which held the lock;
\* thread u has taken the lock since and is creating a connection, with the
\* count and the idle list as the failure left them.
C36_Witness ==
    \E t, u \in Threads :
       /\ t # u
       /\ err[t] = "ConnectionError"
       /\ pc[t] = "idle"
       /\ held[t] = {}
       /\ pc[u] = "gc_create"
       /\ lock = u
       /\ connection_count = 0
       /\ connections = <<>>

\* C37: the idle list never holds more than max_connections connections, also
\* when connections created beyond the bound are released.
C37_IdleListBounded ==
    Len(connections) <= max_connections

\* More connections exist than the bound allows, the idle list is full, and a
\* caller is releasing one more valid connection.
C37_Witness ==
    \E t \in Threads :
       /\ pc[t] = "rc_pool"
       /\ connState[conn[t]] = "open"
       /\ Len(connections) = max_connections
       /\ connection_count > max_connections

(***************************************************************************)
(* ConnectionManager: the pool lock (threading.Lock, not reentrant)        *)
(*                                                                         *)
(* A call that has been made and has not yet entered `with self._lock` is  *)
(* kept in waiting[t].  The release of a connection waits for the lock in  *)
(* pc "rc_pool" or "rc_dec", after its validation statement.               *)
(***************************************************************************)
WaitKinds == {"get", "close", "info", "health"}

\* The threads that call the pool at the same time: two contend for the lock.
Contenders == {1, 2}

\* The threads whose call will open a connection if the idle list is empty.
Acquiring == {t \in Threads : waiting[t] \in {"get", "health"} \/ pc[t] = "gc_create"}

\* Thread t calls get_connection, close_all, get_connection_info or
\* health_check.  A call that may open a connection is made only while the
\* engine has a handle left for it.
MakeCall(t) ==
    /\ pc[t] = "idle"
    /\ waiting[t] = "none"
    /\ health[t] \notin {"call", "leaving"}
    /\ \E k \in WaitKinds :
          /\ k \in {"get", "health"} =>
                Cardinality({h \in Handles : connState[h] = "unborn"})
                   > Cardinality(Acquiring)
          /\ waiting' = [waiting EXCEPT ![t] = k]
    /\ UNCHANGED <<connections, connection_count, lock, connState, pc, conn, held,
                   inCtx, ctxLog, err, invalid, outAtClose, health, partly, stale>>
    /\ UNCHANGED <<qbVars, clientVars>>

\* Thread t calls return_connection on a handle it holds: the validation
\* statement runs outside the lock.
MakeRelease(t) ==
    /\ waiting[t] = "none"
    /\ ReturnConnection(t)

\* Lines 145-150: get_connection enters `with self._lock`.
LockedGet(t) ==
    /\ waiting[t] = "get"
    /\ waiting' = [waiting EXCEPT ![t] = "none"]
    /\ Plain(t)
    /\ get_connection(t, FALSE)
    /\ UNCHANGED <<qbVars, clientVars, partly, stale>>

\* Lines 254-255: health_check enters get_connection_context, which enters
\* get_connection.
LockedHealth(t) ==
    /\ waiting[t] = "health"
    /\ waiting' = [waiting EXCEPT ![t] = "none"]
    /\ health' = [health EXCEPT ![t] = "call"]
    /\ get_connection(t, TRUE)
    /\ UNCHANGED <<qbVars, clientVars, partly, stale>>

\* Lines 198-206: close_all enters `with self._lock` and leaves it.
LockedCloseAll(t) ==
    /\ waiting[t] = "close"
    /\ waiting' = [waiting EXCEPT ![t] = "none"]
    /\ Plain(t)
    /\ close_all
    /\ UNCHANGED <<qbVars, clientVars, partly, stale>>

\* Lines 238-245: get_connection_info reads the counters under the lock.
get_connection_info(t) ==
    /\ lock = None
    /\ waiting[t] = "info"
    /\ waiting' = [waiting EXCEPT ![t] = "none"]
    /\ Plain(t)
    /\ UNCHANGED <<connections, connection_count, lock, connState, pc, conn, held,
                   inCtx, ctxLog, err, invalid, outAtClose, partly, stale>>
    /\ UNCHANGED <<qbVars, clientVars>>

\* The steps of thread t that enter the lock.
LockStep(t) ==
    \/ LockedGet(t)
    \/ LockedHealth(t)
    \/ LockedCloseAll(t)
    \/ get_connection_info(t)
    \/ PoolOrClose(t)
    \/ DropInvalid(t)
    \/ HealthReturn(t)

\* The steps of thread t that wait for the engine only.
EngineStep(t) ==
    \/ CreateConnection(t)
    \/ HealthCreate(t)
    \/ HealthStatement(t)

LockNext ==
    \E t \in Contenders :
       \/ MakeCall(t)
       \/ MakeRelease(t)
       \/ BreakConnection(t)
       \/ LockedGet(t)
       \/ LockedHealth(t)
       \/ LockedCloseAll(t)
       \/ get_connection_info(t)
       \/ PoolOrClose(t)
       \/ DropInvalid(t)
       \/ HealthReturn(t)
       \/ CreateConnection(t)
       \/ HealthCreate(t)
       \/ HealthStatement(t)

\* Every engine call returns, and a thread that waits for the lock gets it if
\* the lock is free again and again.
LockSpec ==
    /\ PoolSpecInit
    /\ [][LockNext]_vars
    /\ \A t \in Contenders : WF_vars(EngineStep(t)) /\ SF_vars(LockStep(t))

\* Thread t is inside a call on the pool.
InCall(t) ==
    \/ waiting[t] # "none"
    \/ pc[t] # "idle"
    \/ health[t] \in {"call", "leaving"}

WhereValues ==
    {[kind |-> "list", value |-> <<>>], [kind |-> "list", value |-> <<1>>],
     [kind |-> "list", value |-> <<1, 2>>], [kind |-> "none", value |-> <<>>],
     [kind |-> "scalar", value |-> <<1>>]}

WhereColumns == {"id", "name"}

WhereItems == {[column |-> c, kind |-> v.kind, value |-> v.value] :
                  c \in WhereColumns, v \in WhereValues}

\* The dictionaries with one or two keys.
WhereDicts ==
    {<<e>> : e \in WhereItems}
       \cup {w \in WhereItems \X WhereItems : w[1].column # w[2].column}

\* select 294-302 and count 558-567: the loop over where.items() that calls
\* query.where_in, query.where_is_null or query.where.
RECURSIVE query_where(_, _)
query_where(q, w) ==
    IF w = <<>> THEN q
    ELSE LET e == Head(w)
             next == CASE e.kind = "list" -> where_in(q, <<e.column>>, e.value)
                       [] e.kind = "none" -> where_is_null(q, <<e.column>>)
                       [] OTHER -> where(q, <<e.column, " = ", "?">>, e.value)
         IN  query_where(next, Tail(w))

\* The WHERE clause and the parameters that build() gives for the builder.
built_where(q) ==
    [where |-> JoinWith(where_part(q), <<" ">>), params |-> main_params(q)]

select_where(w) == built_where(query_where(select_from(<<"users">>, <<<<"*">>>>), w))

count_where(w) == built_where(query_where(select_from(<<"users">>, <<<<"COUNT(*)">>>>), w))

\* update 414-427 and delete 454-468: the loop that fills where_clauses and
\* values, and the " AND ".join of the statement.
where_clause(e) ==
    CASE e.kind = "list" -> <<e.column, " IN (">> \o Placeholders(Len(e.value)) \o <<")">>
      [] e.kind = "none" -> <<e.column, " IS NULL">>
      [] OTHER -> <<e.column, " = ", "?">>

where_values(e) == IF e.kind = "none" THEN <<>> ELSE e.value

joined_where(w) ==
    [where |-> <<"WHERE ">> \o JoinWith([i \in DOMAIN w |-> where_clause(w[i])], <<" AND ">>),
     params |-> Flatten([i \in DOMAIN w |-> where_values(w[i])])]

\* The values of the SET clause come first in the parameters of update; the
\* ones kept here are those of the WHERE clause.
update_where(w) == joined_where(w)

delete_where(w) == joined_where(w)

\* The client operation op has translated the where dictionary w to r.
Translated(op, w, r) ==
    /\ trace' = [NoCall EXCEPT !.op = op, !.args = <<w>>]
    /\ result' = [NoResult EXCEPT !.status = "ok", !.sql = r.where, !.params = r.params]

TranslateSelect ==
    /\ UNCHANGED <<builders, calls, poolVars, clientVars>>
    /\ \E w \in WhereDicts : Translated("select", w, select_where(w))

TranslateCount ==
    /\ UNCHANGED <<builders, calls, poolVars, clientVars>>
    /\ \E w \in WhereDicts : Translated("count", w, count_where(w))

TranslateUpdate ==
    /\ UNCHANGED <<builders, calls, poolVars, clientVars>>
    /\ \E w \in WhereDicts : Translated("update", w, update_where(w))

TranslateDelete ==
    /\ UNCHANGED <<builders, calls, poolVars, clientVars>>
    /\ \E w \in WhereDicts : Translated("delete", w, delete_where(w))

WhereNext ==
    \E n \in {1} :
       \/ TranslateSelect
       \/ TranslateCount
       \/ TranslateUpdate
       \/ TranslateDelete

WhereSpec == PoolSpecInit /\ [][WhereNext]_vars

\* The predicate the translation is to give for one item of the dictionary.
ItemPredicate(e) ==
    CASE e.kind = "list" /\ e.value = <<>> -> "1 = 0"
      [] e.kind = "list" /\ Len(e.value) = 1 -> e.column \o " IN (?)"
      [] e.kind = "list" /\ Len(e.value) = 2 -> e.column \o " IN (?, ?)"
      [] e.kind = "none" -> e.column \o " IS NULL"
      [] OTHER -> e.column \o " = ?"

\* The WHERE text for the whole dictionary.
DictPredicate(w) ==
    "WHERE " \o ItemPredicate(w[1])
       \o (IF Len(w) = 2 THEN " AND " \o ItemPredicate(w[2]) ELSE "")

\* C39: select, count, update and delete translate a where dictionary to the
\* same WHERE text and the same parameters: a list value becomes an IN
\* predicate over its elements, `1 = 0` when the list is empty; None becomes
\* `column IS NULL`; any other value becomes `column = ?` bound to the value.
C39_SameWhereTranslation ==
    trace.op \in {"select", "count", "update", "delete"} =>
       /\ Str(result.sql) = DictPredicate(trace.args[1])
       /\ result.params = Flatten([i \in DOMAIN trace.args[1] |->
                                      where_values(trace.args[1][i])])

====
